---- MODULE Spec2Model ----
(***************************************************************************)
(* The exercise-form analysis engine of backend/services/pose_analyzer.py  *)
(* (class PoseAnalyzer), as one call of analyze_exercise stepping through  *)
(* its statements.                                                         *)
(*                                                                         *)
(* Number representation (Python floats have no TLA+ counterpart):         *)
(*   - landmark coordinates are whole pixels;                              *)
(*   - a confidence ("score") is in hundredths: 20 is 0.2;                 *)
(*   - an angle is in hundredths of a degree: 18000 is 180 degrees;        *)
(*   - a form score is in hundredths: 100 is 1.0;                          *)
(*   - an average (a + b) / 2 is kept as the sum a + b and compared with   *)
(*     twice the threshold; a product with 1.5, 0.8, 1.8 or 0.6 is         *)
(*     compared after multiplying both sides by 2 or by 10.                *)
(* Python's None is None_pt for a landmark, None_angle for an angle and    *)
(* None_str for a string.  A dict is a function whose DOMAIN is its key    *)
(* set; a landmark dict carries its key set in the field "has".            *)
(***************************************************************************)
EXTENDS Integers, Sequences, FiniteSets, TLC

VARIABLES
    exercise_types,   \* self.exercise_types: the registry's key set
    joint_indices,    \* self.joint_indices: landmark name -> index
    keypoints,        \* argument keypoints of analyze_exercise
    exercise_type,    \* argument exercise_type (the hint)
    pc,               \* position inside analyze_exercise
    angles,           \* local angles
    detected_type,    \* local detected_type
    response,         \* local response
    calls             \* the calls concurrent callers have in progress on the
                      \* shared instance: caller -> that call's locals

vars == <<exercise_types, joint_indices, keypoints, exercise_type, pc,
          angles, detected_type, response, calls>>

(***************************************************************************)
(* Python values                                                           *)
(***************************************************************************)
None_str == "<None>"

\* None has no keys: reading a coordinate of it is an error.
None_pt == [has |-> {"<None>"}]

None_angle == 0 - 1

\* The values an angle computation yields when it raises instead of returning.
ZeroDivisionError == 0 - 2

OverflowError == 0 - 3

\* Floats: a coordinate is a whole number of pixels of ordinary size, except
\* the one value Huge, which stands for a float such as 1e200 whose square is
\* past the largest float.  v ** 2 raises OverflowError for such a v.
Huge == 1000 * 1000

SquareOverflows(v) == v >= Huge \div 2 \/ 0 - v >= Huge \div 2

Abs(n) == IF n < 0 THEN 0 - n ELSE n

\* A landmark dict {"x": px, "y": py, "score": s / 100}.
Landmark(px, py, s) == [has |-> {"x", "y", "score"}, x |-> px, y |-> py, score |-> s]

(***************************************************************************)
(* math.degrees(math.acos(c)) for c = dot / (|v1| * |v2|)                  *)
(***************************************************************************)
\* sin(d degrees) * 10000 for d = 0 .. 90, at position d + 1.
SinTab ==
    << 0, 175, 349, 523, 698, 872, 1045, 1219, 1392, 1564, 1736, 1908, 2079,
       2250, 2419, 2588, 2756, 2924, 3090, 3256, 3420, 3584, 3746, 3907, 4067,
       4226, 4384, 4540, 4695, 4848, 5000, 5150, 5299, 5446, 5592, 5736, 5878,
       6018, 6157, 6293, 6428, 6561, 6691, 6820, 6947, 7071, 7193, 7314, 7431,
       7547, 7660, 7771, 7880, 7986, 8090, 8192, 8290, 8387, 8480, 8572, 8660,
       8746, 8829, 8910, 8988, 9063, 9135, 9205, 9272, 9336, 9397, 9455, 9511,
       9563, 9613, 9659, 9703, 9744, 9781, 9816, 9848, 9877, 9903, 9925, 9945,
       9962, 9976, 9986, 9994, 9998, 10000 >>

Sin(d) == IF d <= 90 THEN SinTab[d + 1] ELSE SinTab[181 - d]

Cos(d) == IF d <= 90 THEN SinTab[91 - d] ELSE 0 - SinTab[d - 89]

\* |v1| |v2| sin(theta - d) * 10000, where c = |v1| |v2| sin(theta) >= 0 and
\* dt = |v1| |v2| cos(theta): it is >= 0 exactly when theta >= d.
SinDiff(c, dt, d) == c * Cos(d) - dt * Sin(d)

\* The largest whole degree d in lo .. hi with theta >= d (bisection).
RECURSIVE FloorDegree(_, _, _, _)
FloorDegree(c, dt, lo, hi) ==
    IF lo = hi THEN lo
    ELSE LET mid == (lo + hi + 1) \div 2 IN
         IF SinDiff(c, dt, mid) >= 0
         THEN FloorDegree(c, dt, mid, hi)
         ELSE FloorDegree(c, dt, lo, mid - 1)

\* acos of the cosine dt / sqrt(c^2 + dt^2), in hundredths of a degree.  The
\* cosine is in [-1, 1] (line 206 clamps the float that may drift past it), so
\* the result is in [0, 18000]; within a degree the angle is interpolated.
AcosDegrees(c, dt) ==
    IF c = 0 THEN (IF dt > 0 THEN 0 ELSE 18000)
    ELSE LET d == FloorDegree(c, dt, 0, 179)
             n0 == SinDiff(c, dt, d)
             n1 == 0 - SinDiff(c, dt, d + 1)
         IN  100 * d + (100 * n0) \div (n0 + n1)

(***************************************************************************)
(* _calculate_angle (lines 162-210)                                        *)
(***************************************************************************)
min_confidence == 20

\* LowConfidence with the threshold itself counted as too low.
LowConfidence_Inclusive(point) ==
    "score" \in point.has /\ point.score <= min_confidence

LowConfidence(point) == "score" \in point.has /\ point.score < min_confidence

\* AngleFromCosine as the difference of two atan2 directions, left unfolded:
\* a clockwise turn comes out as 360 degrees minus the angle.
AngleFromCosine_Unfolded(v1x, v1y, v2x, v2y) ==
    LET dot_product == v1x * v2x + v1y * v2y
        cross == v1x * v2y - v1y * v2x
    IN  IF (v1x = 0 /\ v1y = 0) \/ (v2x = 0 /\ v2y = 0) THEN ZeroDivisionError
        ELSE IF cross < 0 THEN 36000 - AcosDegrees(0 - cross, dot_product)
        ELSE AcosDegrees(cross, dot_product)

\* Lines 204-210: cosine = dot_product / (magnitude1 * magnitude2), clamped,
\* then acos in degrees.  The division raises when the product is 0.
\* magnitude1 * magnitude2 is 0 exactly when one of the vectors is (0, 0).
AngleFromCosine(v1x, v1y, v2x, v2y) ==
    LET dot_product == v1x * v2x + v1y * v2y
        cross == v1x * v2y - v1y * v2x
    IN  IF (v1x = 0 /\ v1y = 0) \/ (v2x = 0 /\ v2y = 0) THEN ZeroDivisionError
        ELSE AcosDegrees(Abs(cross), dot_product)

\* AngleOfVectors with a degenerate vector answered by 0 degrees.
AngleOfVectors_ZeroForDegenerate(point1, point2, point3) ==
    LET v1x == point1.x - point2.x
        v1y == point1.y - point2.y
        v2x == point3.x - point2.x
        v2y == point3.y - point2.y
    IN  IF SquareOverflows(v1x) \/ SquareOverflows(v1y)
           \/ SquareOverflows(v2x) \/ SquareOverflows(v2y)
        THEN OverflowError
        ELSE IF v1x * v1x + v1y * v1y = 0 \/ v2x * v2x + v2y * v2y = 0
             THEN 0
             ELSE AngleFromCosine(v1x, v1y, v2x, v2y)

\* AngleOfVectors with the first vector's y taken against the vertex's x.
AngleOfVectors_MixedAxis(point1, point2, point3) ==
    LET v1x == point1.x - point2.x
        v1y == point1.y - point2.x
        v2x == point3.x - point2.x
        v2y == point3.y - point2.y
    IN  IF SquareOverflows(v1x) \/ SquareOverflows(v1y)
           \/ SquareOverflows(v2x) \/ SquareOverflows(v2y)
        THEN OverflowError
        ELSE IF v1x * v1x + v1y * v1y = 0 \/ v2x * v2x + v2y * v2y = 0
             THEN None_angle
             ELSE AngleFromCosine(v1x, v1y, v2x, v2y)

\* Lines 189-210: the vectors, the squares of lines 197-198, the guard of
\* line 201 and the angle.
AngleOfVectors(point1, point2, point3) ==
    LET v1x == point1.x - point2.x
        v1y == point1.y - point2.y
        v2x == point3.x - point2.x
        v2y == point3.y - point2.y
    IN  IF SquareOverflows(v1x) \/ SquareOverflows(v1y)
           \/ SquareOverflows(v2x) \/ SquareOverflows(v2y)
        THEN OverflowError
        ELSE IF v1x * v1x + v1y * v1y = 0 \/ v2x * v2x + v2y * v2y = 0
             THEN None_angle
             ELSE AngleFromCosine(v1x, v1y, v2x, v2y)

calculate_angle(point1, point2, point3) ==
    IF point1 = None_pt \/ point2 = None_pt \/ point3 = None_pt THEN None_angle
    ELSE IF LowConfidence(point1) \/ LowConfidence(point2) \/ LowConfidence(point3)
         THEN None_angle
         ELSE AngleOfVectors(point1, point2, point3)

(***************************************************************************)
(* _get_point (lines 212-227)                                              *)
(***************************************************************************)
\* get_point without the check of lines 223-225 for the keys "x" and "y".
get_point_Unchecked(kps, joint_name) ==
    IF joint_name \notin DOMAIN joint_indices THEN None_pt
    ELSE LET index == joint_indices[joint_name] IN
         IF index >= Len(kps) THEN None_pt
         ELSE kps[index + 1]

\* Sequences are 1-based: keypoints[index] of the code is kps[index + 1].
get_point(kps, joint_name) ==
    IF joint_name \notin DOMAIN joint_indices THEN None_pt
    ELSE LET index == joint_indices[joint_name] IN
         IF index >= Len(kps) THEN None_pt
         ELSE LET keypoint == kps[index + 1] IN
              IF "x" \notin keypoint.has \/ "y" \notin keypoint.has THEN None_pt
              ELSE keypoint

(***************************************************************************)
(* _calculate_joint_angles (lines 82-160)                                  *)
(***************************************************************************)
\* Lines 150-158: the torso angle, a key of the dict only when both points exist.
TorsoAngle(kps) ==
    LET left_shoulder == get_point(kps, "left_shoulder")
        left_hip == get_point(kps, "left_hip")
    IN  IF left_shoulder # None_pt /\ left_hip # None_pt
        THEN LET vertical_point ==
                     [has |-> {"x", "y", "score"}, x |-> left_hip.x,
                      y |-> left_hip.y - 100, score |-> 100]
             IN  [torso_vertical |->
                      calculate_angle(vertical_point, left_hip, left_shoulder)]
        ELSE << >>

\* The angle at joint b of the triple (a, b, c), by landmark names.
TripleAngle(kps, a, b, c) ==
    calculate_angle(get_point(kps, a), get_point(kps, b), get_point(kps, c))

calculate_joint_angles(kps) ==
    IF Len(kps) < 17 THEN << >>
    ELSE [left_elbow |-> TripleAngle(kps, "left_shoulder", "left_elbow", "left_wrist"),
          right_elbow |-> TripleAngle(kps, "right_shoulder", "right_elbow", "right_wrist"),
          left_shoulder |-> TripleAngle(kps, "left_elbow", "left_shoulder", "left_hip"),
          right_shoulder |-> TripleAngle(kps, "right_elbow", "right_shoulder", "right_hip"),
          left_hip |-> TripleAngle(kps, "left_shoulder", "left_hip", "left_knee"),
          right_hip |-> TripleAngle(kps, "right_shoulder", "right_hip", "right_knee"),
          left_knee |-> TripleAngle(kps, "left_hip", "left_knee", "left_ankle"),
          right_knee |-> TripleAngle(kps, "right_hip", "right_knee", "right_ankle")]
         @@ TorsoAngle(kps)

\* dict.get(key, default); dict.get(key) is Get(d, key, None_angle).
Get(d, key, default) == IF key \in DOMAIN d THEN d[key] ELSE default

\* Truth value of an angle: None and 0.0 are false.
Truthy(a) == a # None_angle /\ a # 0

(***************************************************************************)
(* _detect_exercise_type (lines 229-294); None_str when undetected         *)
(***************************************************************************)
\* detect_exercise_type with the width rule firing at a ratio of exactly 1.5.
detect_exercise_type_WidthInclusive(kps, angs) ==
    LET left_shoulder == get_point(kps, "left_shoulder")
        right_shoulder == get_point(kps, "right_shoulder")
        left_hip == get_point(kps, "left_hip")
        right_hip == get_point(kps, "right_hip")
        left_knee == get_point(kps, "left_knee")
        right_knee == get_point(kps, "right_knee")
    IN  IF left_shoulder = None_pt \/ right_shoulder = None_pt
           \/ left_hip = None_pt \/ right_hip = None_pt
        THEN None_str
        ELSE
        LET shoulder_y2 == left_shoulder.y + right_shoulder.y
            hip_y2 == left_hip.y + right_hip.y
            torso_vertical_dist2 == Abs(shoulder_y2 - hip_y2)
            left_elbow == Get(angs, "left_elbow", None_angle)
            right_elbow == Get(angs, "right_elbow", None_angle)
            left_knee_angle == Get(angs, "left_knee", None_angle)
            right_knee_angle == Get(angs, "right_knee", None_angle)
            shoulder_width == Abs(left_shoulder.x - right_shoulder.x)
            hip_width == Abs(left_hip.x - right_hip.x)
        IN  IF torso_vertical_dist2 < 2 * 30 /\ Truthy(left_elbow) /\ Truthy(right_elbow)
            THEN (IF left_elbow + right_elbow < 2 * 12000 THEN "push_up" ELSE "plank")
            ELSE IF left_knee # None_pt /\ right_knee # None_pt
                    /\ Truthy(left_knee_angle) /\ Truthy(right_knee_angle)
                    /\ left_knee_angle + right_knee_angle < 2 * 16000
                 THEN "squat"
                 ELSE IF 2 * shoulder_width >= 3 * hip_width
                      THEN "jumping_jack"
                      ELSE None_str

detect_exercise_type(kps, angs) ==
    LET left_shoulder == get_point(kps, "left_shoulder")
        right_shoulder == get_point(kps, "right_shoulder")
        left_hip == get_point(kps, "left_hip")
        right_hip == get_point(kps, "right_hip")
        left_knee == get_point(kps, "left_knee")
        right_knee == get_point(kps, "right_knee")
    IN  IF left_shoulder = None_pt \/ right_shoulder = None_pt
           \/ left_hip = None_pt \/ right_hip = None_pt
        THEN None_str
        ELSE
        LET shoulder_y2 == left_shoulder.y + right_shoulder.y
            hip_y2 == left_hip.y + right_hip.y
            torso_vertical_dist2 == Abs(shoulder_y2 - hip_y2)
            left_elbow == Get(angs, "left_elbow", None_angle)
            right_elbow == Get(angs, "right_elbow", None_angle)
            left_knee_angle == Get(angs, "left_knee", None_angle)
            right_knee_angle == Get(angs, "right_knee", None_angle)
            shoulder_width == Abs(left_shoulder.x - right_shoulder.x)
            hip_width == Abs(left_hip.x - right_hip.x)
        IN  IF torso_vertical_dist2 < 2 * 30 /\ Truthy(left_elbow) /\ Truthy(right_elbow)
            THEN (IF left_elbow + right_elbow < 2 * 12000 THEN "push_up" ELSE "plank")
            ELSE IF left_knee # None_pt /\ right_knee # None_pt
                    /\ Truthy(left_knee_angle) /\ Truthy(right_knee_angle)
                    /\ left_knee_angle + right_knee_angle < 2 * 16000
                 THEN "squat"
                 ELSE IF 2 * shoulder_width > 3 * hip_width
                      THEN "jumping_jack"
                      ELSE None_str

\* detect_exercise_stage with a squat counted as down below 150 degrees.
detect_exercise_stage_SquatDown150(etype, angs) ==
    IF etype = "push_up"
    THEN LET left_elbow == Get(angs, "left_elbow", 18000)
             right_elbow == Get(angs, "right_elbow", 18000)
             avg_elbow_angle2 == IF Truthy(left_elbow) /\ Truthy(right_elbow)
                                 THEN left_elbow + right_elbow ELSE 2 * 18000
         IN  IF avg_elbow_angle2 < 2 * 10000 THEN "down"
             ELSE IF avg_elbow_angle2 > 2 * 16000 THEN "up" ELSE "neutral"
    ELSE IF etype = "squat"
    THEN LET left_knee == Get(angs, "left_knee", 18000)
             right_knee == Get(angs, "right_knee", 18000)
             avg_knee_angle2 == IF Truthy(left_knee) /\ Truthy(right_knee)
                                THEN left_knee + right_knee ELSE 2 * 18000
         IN  IF avg_knee_angle2 < 2 * 15000 THEN "down"
             ELSE IF avg_knee_angle2 > 2 * 16000 THEN "up" ELSE "neutral"
    ELSE IF etype = "jumping_jack"
    THEN LET left_shoulder == Get(angs, "left_shoulder", 0)
             right_shoulder == Get(angs, "right_shoulder", 0)
         IN  IF Truthy(left_shoulder) /\ Truthy(right_shoulder)
             THEN (IF left_shoulder + right_shoulder > 2 * 8000 THEN "up"
                   ELSE IF left_shoulder + right_shoulder < 2 * 3000 THEN "down"
                   ELSE "neutral")
             ELSE "neutral"
    ELSE "neutral"

(***************************************************************************)
(* _detect_exercise_stage (lines 296-342)                                  *)
(***************************************************************************)
detect_exercise_stage(etype, angs) ==
    IF etype = "push_up"
    THEN LET left_elbow == Get(angs, "left_elbow", 18000)
             right_elbow == Get(angs, "right_elbow", 18000)
             avg_elbow_angle2 == IF Truthy(left_elbow) /\ Truthy(right_elbow)
                                 THEN left_elbow + right_elbow ELSE 2 * 18000
         IN  IF avg_elbow_angle2 < 2 * 10000 THEN "down"
             ELSE IF avg_elbow_angle2 > 2 * 16000 THEN "up" ELSE "neutral"
    ELSE IF etype = "squat"
    THEN LET left_knee == Get(angs, "left_knee", 18000)
             right_knee == Get(angs, "right_knee", 18000)
             avg_knee_angle2 == IF Truthy(left_knee) /\ Truthy(right_knee)
                                THEN left_knee + right_knee ELSE 2 * 18000
         IN  IF avg_knee_angle2 < 2 * 12000 THEN "down"
             ELSE IF avg_knee_angle2 > 2 * 16000 THEN "up" ELSE "neutral"
    ELSE IF etype = "jumping_jack"
    THEN LET left_shoulder == Get(angs, "left_shoulder", 0)
             right_shoulder == Get(angs, "right_shoulder", 0)
         IN  IF Truthy(left_shoulder) /\ Truthy(right_shoulder)
             THEN (IF left_shoulder + right_shoulder > 2 * 8000 THEN "up"
                   ELSE IF left_shoulder + right_shoulder < 2 * 3000 THEN "down"
                   ELSE "neutral")
             ELSE "neutral"
    ELSE "neutral"

(***************************************************************************)
(* Scoring rule sets.  A rule yields its penalty and its message, or       *)
(* nothing; the rules of a set are listed in the order the code runs them. *)
(***************************************************************************)
NoRule == [pen |-> 0, msgs |-> << >>]

Fire(penalty, message) == [pen |-> penalty, msgs |-> <<message>>]

RECURSIVE SumPen(_)
SumPen(rules) == IF rules = << >> THEN 0 ELSE Head(rules).pen + SumPen(Tail(rules))

RECURSIVE AllMsgs(_)
AllMsgs(rules) == IF rules = << >> THEN << >> ELSE Head(rules).msgs \o AllMsgs(Tail(rules))

Max(a, b) == IF a >= b THEN a ELSE b

Min(a, b) == IF a <= b THEN a ELSE b

\* The score is a float.  A float near n / 100 is the pair of n and its
\* distance from n / 100, counted in units of 1 / (100 * 2^55): the literal
\* 0.15 is 15 hundredths less 20 units, 0.2 is 20 hundredths plus 40 units.
\* (Penalties of 0 belong to rules that did not fire and subtract nothing.)
LiteralRounding(hundredths) ==
    CASE hundredths = 10 -> 20
      [] hundredths = 15 -> 0 - 20
      [] hundredths = 20 -> 40
      [] OTHER -> 0

\* 2^(55 - j) modulo 25 for j = 3, 4, 5: n / 100 in units is n * 2^55, and
\* modulo 25 * 2^j that is 2^j * ((n * 2^(55 - j)) % 25).
PowerMod25(j) == CASE j = 3 -> 21 [] j = 4 -> 23 [] j = 5 -> 24

\* FloatMinus rounding every difference down to the float below it.
FloatMinus_RoundDown(score, penalty) ==
    LET n == score.hundredths - penalty
        e == score.rounding - LiteralRounding(penalty)
        j == IF n > 50 \/ (n = 50 /\ e >= 0) THEN 5
             ELSE IF n > 25 \/ (n = 25 /\ e >= 0) THEN 4 ELSE 3
        spacing == IF j = 5 THEN 400 ELSE IF j = 4 THEN 200 ELSE 100
        place == (((2 * spacing) \div 25) * ((n * PowerMod25(j)) % 25) + e) % (2 * spacing)
        rest == place % spacing
    IN  [hundredths |-> n,
         rounding |-> e - rest]

\* score -= penalty in float arithmetic (lines such as 375, 455, 541): the
\* exact difference, rounded to the nearest float of its binade, ties to even.
\* The spacing of floats is 400 units in [0.5, 1], 200 in [0.25, 0.5) and 100
\* in [0.125, 0.25).
FloatMinus(score, penalty) ==
    LET n == score.hundredths - penalty
        e == score.rounding - LiteralRounding(penalty)
        j == IF n > 50 \/ (n = 50 /\ e >= 0) THEN 5
             ELSE IF n > 25 \/ (n = 25 /\ e >= 0) THEN 4 ELSE 3
        spacing == IF j = 5 THEN 400 ELSE IF j = 4 THEN 200 ELSE 100
        place == (((2 * spacing) \div 25) * ((n * PowerMod25(j)) % 25) + e) % (2 * spacing)
        rest == place % spacing
        down == 2 * rest < spacing \/ (2 * rest = spacing /\ place < spacing)
    IN  [hundredths |-> n,
         rounding |-> IF down THEN e - rest ELSE e - rest + spacing]

\* score = 1.0, then score -= penalty for each rule that fired, in order.
RECURSIVE FloatScore(_, _)
FloatScore(score, rules) ==
    IF rules = << >> THEN score
    ELSE FloatScore(IF Head(rules).pen = 0 THEN score
                    ELSE FloatMinus(score, Head(rules).pen),
                    Tail(rules))

\* Assess without the affirmative message of a clean run.
Assess_NoAffirmative(rules, affirmative) ==
    [score |-> Max(0, Min(100, 100 - SumPen(rules))),
     rounding |-> FloatScore([hundredths |-> 100, rounding |-> 0], rules).rounding,
     feedback |-> AllMsgs(rules)]

\* score = 1.0 minus the penalties, clamped by max(0.0, min(1.0, score)); the
\* affirmative message when no rule appended one.  The field score is the
\* float to the nearest hundredth and the field rounding is what the float
\* differs from it by.
Assess(rules, affirmative) ==
    [score |-> Max(0, Min(100, 100 - SumPen(rules))),
     rounding |-> FloatScore([hundredths |-> 100, rounding |-> 0], rules).rounding,
     feedback |-> IF AllMsgs(rules) = << >> THEN <<affirmative>> ELSE AllMsgs(rules)]

DistSq(p, q) == (p.x - q.x) * (p.x - q.x) + (p.y - q.y) * (p.y - q.y)

\* Lines 403-404 and 554-557: the squares under math.sqrt raise like line 197.
DistOverflows(p, q) == SquareOverflows(p.x - q.x) \/ SquareOverflows(p.y - q.y)

\* HipAlignment taking hips more than 20 from the shoulders as out of line.
HipAlignment_Within20(left_shoulder, right_shoulder, left_hip, right_hip, lower, raise) ==
    IF left_shoulder # None_pt /\ right_shoulder # None_pt
       /\ left_hip # None_pt /\ right_hip # None_pt
    THEN LET shoulder_y2 == left_shoulder.y + right_shoulder.y
             hip_y2 == left_hip.y + right_hip.y
         IN  IF Abs(shoulder_y2 - hip_y2) > 2 * 20
             THEN (IF hip_y2 < shoulder_y2 - 2 * 20 THEN Fire(25, lower)
                   ELSE IF hip_y2 > shoulder_y2 + 2 * 20 THEN Fire(25, raise)
                   ELSE NoRule)
             ELSE NoRule
    ELSE NoRule

\* Lines 366-377 and 530-541: hips against shoulders, with the two messages.
HipAlignment(left_shoulder, right_shoulder, left_hip, right_hip, lower, raise) ==
    IF left_shoulder # None_pt /\ right_shoulder # None_pt
       /\ left_hip # None_pt /\ right_hip # None_pt
    THEN LET shoulder_y2 == left_shoulder.y + right_shoulder.y
             hip_y2 == left_hip.y + right_hip.y
         IN  IF Abs(shoulder_y2 - hip_y2) > 2 * 30
             THEN (IF hip_y2 < shoulder_y2 - 2 * 20 THEN Fire(25, lower)
                   ELSE IF hip_y2 > shoulder_y2 + 2 * 20 THEN Fire(25, raise)
                   ELSE NoRule)
             ELSE NoRule
    ELSE NoRule

\* _analyze_push_up (lines 344-417)
analyze_push_up(kps, angs) ==
    LET left_shoulder == get_point(kps, "left_shoulder")
        right_shoulder == get_point(kps, "right_shoulder")
        left_hip == get_point(kps, "left_hip")
        right_hip == get_point(kps, "right_hip")
        left_ankle == get_point(kps, "left_ankle")
        right_ankle == get_point(kps, "right_ankle")
        left_elbow == Get(angs, "left_elbow", None_angle)
        right_elbow == Get(angs, "right_elbow", None_angle)
        avg_elbow_angle2 == left_elbow + right_elbow
        stage == detect_exercise_stage("push_up", angs)
        back == HipAlignment(left_shoulder, right_shoulder, left_hip, right_hip,
                    "Lower your hips - maintain a straight line from head to heels",
                    "Raise your hips - avoid sagging in the middle")
        elbows ==
            IF Truthy(left_elbow) /\ Truthy(right_elbow)
            THEN (IF stage = "down"
                  THEN (IF avg_elbow_angle2 < 2 * 7000
                        THEN Fire(15, "You're going too deep - aim for 90 deg at the elbow")
                        ELSE IF avg_elbow_angle2 > 2 * 11000
                        THEN Fire(20, "Go lower - aim for 90 deg at the elbow")
                        ELSE NoRule)
                  ELSE IF stage = "up" /\ avg_elbow_angle2 < 2 * 16000
                  THEN Fire(15, "Fully extend your arms at the top of the push-up")
                  ELSE NoRule)
            ELSE NoRule
        legs ==
            IF left_ankle # None_pt /\ right_ankle # None_pt
               /\ DistSq(left_ankle, right_ankle) > 50 * 50
            THEN Fire(10, "Keep your legs together for better stability")
            ELSE NoRule
    IN  Assess(<<back, elbows, legs>>,
               "Great push-up form! Maintain a straight body line.")

\* analyze_squat with the knee-over-toe rule looking at the right knee only.
analyze_squat_RightKneeOnly(kps, angs) ==
    LET left_hip == get_point(kps, "left_hip")
        right_hip == get_point(kps, "right_hip")
        left_knee == get_point(kps, "left_knee")
        right_knee == get_point(kps, "right_knee")
        left_ankle == get_point(kps, "left_ankle")
        right_ankle == get_point(kps, "right_ankle")
        left_knee_angle == Get(angs, "left_knee", None_angle)
        right_knee_angle == Get(angs, "right_knee", None_angle)
        avg_knee_angle2 == left_knee_angle + right_knee_angle
        stage == detect_exercise_stage("squat", angs)
        torso_vertical == Get(angs, "torso_vertical", None_angle)
        depth ==
            IF Truthy(left_knee_angle) /\ Truthy(right_knee_angle) /\ stage = "down"
            THEN (IF avg_knee_angle2 > 2 * 14000
                  THEN Fire(25, "Squat deeper - aim for thighs parallel to the ground")
                  ELSE IF avg_knee_angle2 < 2 * 7000
                  THEN Fire(15, "You're squatting too deep - be careful with your knees")
                  ELSE NoRule)
            ELSE NoRule
        toes ==
            IF left_knee # None_pt /\ left_ankle # None_pt
               /\ right_knee # None_pt /\ right_ankle # None_pt
               /\ right_knee.x > right_ankle.x + 30
            THEN Fire(20, "Keep your knees behind your toes")
            ELSE NoRule
        back ==
            IF Truthy(torso_vertical) /\ torso_vertical > 4500
            THEN Fire(15, "Keep your chest up and back more upright")
            ELSE NoRule
        stance ==
            IF left_ankle # None_pt /\ right_ankle # None_pt
            THEN LET ankle_dist == Abs(left_ankle.x - right_ankle.x)
                     hip_width == IF left_hip # None_pt /\ right_hip # None_pt
                                  THEN Abs(left_hip.x - right_hip.x) ELSE 100
                 IN  IF 10 * ankle_dist < 8 * hip_width
                     THEN Fire(10, "Widen your stance to shoulder width or slightly wider")
                     ELSE IF 10 * ankle_dist > 18 * hip_width
                     THEN Fire(10, "Narrow your stance slightly")
                     ELSE NoRule
            ELSE NoRule
        cave ==
            IF left_knee # None_pt /\ right_knee # None_pt
               /\ left_hip # None_pt /\ right_hip # None_pt
               /\ 10 * Abs(left_knee.x - right_knee.x) < 6 * Abs(left_hip.x - right_hip.x)
            THEN Fire(15, "Keep your knees in line with your toes - don't let them cave inward")
            ELSE NoRule
    IN  Assess(<<depth, toes, back, stance, cave>>,
               "Excellent squat form! Keep your weight in your heels.")

\* _analyze_squat (lines 419-504)
analyze_squat(kps, angs) ==
    LET left_hip == get_point(kps, "left_hip")
        right_hip == get_point(kps, "right_hip")
        left_knee == get_point(kps, "left_knee")
        right_knee == get_point(kps, "right_knee")
        left_ankle == get_point(kps, "left_ankle")
        right_ankle == get_point(kps, "right_ankle")
        left_knee_angle == Get(angs, "left_knee", None_angle)
        right_knee_angle == Get(angs, "right_knee", None_angle)
        avg_knee_angle2 == left_knee_angle + right_knee_angle
        stage == detect_exercise_stage("squat", angs)
        torso_vertical == Get(angs, "torso_vertical", None_angle)
        depth ==
            IF Truthy(left_knee_angle) /\ Truthy(right_knee_angle) /\ stage = "down"
            THEN (IF avg_knee_angle2 > 2 * 14000
                  THEN Fire(25, "Squat deeper - aim for thighs parallel to the ground")
                  ELSE IF avg_knee_angle2 < 2 * 7000
                  THEN Fire(15, "You're squatting too deep - be careful with your knees")
                  ELSE NoRule)
            ELSE NoRule
        toes ==
            IF left_knee # None_pt /\ left_ankle # None_pt
               /\ right_knee # None_pt /\ right_ankle # None_pt
               /\ (left_knee.x > left_ankle.x + 30 \/ right_knee.x > right_ankle.x + 30)
            THEN Fire(20, "Keep your knees behind your toes")
            ELSE NoRule
        back ==
            IF Truthy(torso_vertical) /\ torso_vertical > 4500
            THEN Fire(15, "Keep your chest up and back more upright")
            ELSE NoRule
        stance ==
            IF left_ankle # None_pt /\ right_ankle # None_pt
            THEN LET ankle_dist == Abs(left_ankle.x - right_ankle.x)
                     hip_width == IF left_hip # None_pt /\ right_hip # None_pt
                                  THEN Abs(left_hip.x - right_hip.x) ELSE 100
                 IN  IF 10 * ankle_dist < 8 * hip_width
                     THEN Fire(10, "Widen your stance to shoulder width or slightly wider")
                     ELSE IF 10 * ankle_dist > 18 * hip_width
                     THEN Fire(10, "Narrow your stance slightly")
                     ELSE NoRule
            ELSE NoRule
        cave ==
            IF left_knee # None_pt /\ right_knee # None_pt
               /\ left_hip # None_pt /\ right_hip # None_pt
               /\ 10 * Abs(left_knee.x - right_knee.x) < 6 * Abs(left_hip.x - right_hip.x)
            THEN Fire(15, "Keep your knees in line with your toes - don't let them cave inward")
            ELSE NoRule
    IN  Assess(<<depth, toes, back, stance, cave>>,
               "Excellent squat form! Keep your weight in your heels.")

\* analyze_plank with the elbow penalty taken once per side.
analyze_plank_PerSide(kps, angs) ==
    LET left_shoulder == get_point(kps, "left_shoulder")
        right_shoulder == get_point(kps, "right_shoulder")
        left_hip == get_point(kps, "left_hip")
        right_hip == get_point(kps, "right_hip")
        left_ankle == get_point(kps, "left_ankle")
        right_ankle == get_point(kps, "right_ankle")
        left_elbow == get_point(kps, "left_elbow")
        right_elbow == get_point(kps, "right_elbow")
        all4 == left_elbow # None_pt /\ right_elbow # None_pt
                /\ left_shoulder # None_pt /\ right_shoulder # None_pt
        line == HipAlignment(left_shoulder, right_shoulder, left_hip, right_hip,
                    "Lower your hips - your body should form a straight line",
                    "Raise your hips - don't let them sag toward the ground")
        ankles ==
            IF left_ankle # None_pt /\ right_ankle # None_pt
               /\ left_hip # None_pt /\ right_hip # None_pt
               /\ Abs((left_ankle.y + right_ankle.y) - (left_hip.y + right_hip.y)) > 2 * 30
            THEN Fire(15, "Keep your legs straight and in line with your body")
            ELSE NoRule
        left ==
            IF all4 /\ DistSq(left_elbow, left_shoulder) > 40 * 40
            THEN Fire(15, "Position your elbows directly under your shoulders")
            ELSE NoRule
        right ==
            IF all4 /\ DistSq(right_elbow, right_shoulder) > 40 * 40
            THEN Fire(15, "Position your elbows directly under your shoulders")
            ELSE NoRule
    IN  Assess(<<line, ankles, left, right>>,
               "Great plank form! Keep your core engaged and breathe steadily.")

\* _analyze_plank (lines 506-570)
analyze_plank(kps, angs) ==
    LET left_shoulder == get_point(kps, "left_shoulder")
        right_shoulder == get_point(kps, "right_shoulder")
        left_hip == get_point(kps, "left_hip")
        right_hip == get_point(kps, "right_hip")
        left_ankle == get_point(kps, "left_ankle")
        right_ankle == get_point(kps, "right_ankle")
        left_elbow == get_point(kps, "left_elbow")
        right_elbow == get_point(kps, "right_elbow")
        line == HipAlignment(left_shoulder, right_shoulder, left_hip, right_hip,
                    "Lower your hips - your body should form a straight line",
                    "Raise your hips - don't let them sag toward the ground")
        ankles ==
            IF left_ankle # None_pt /\ right_ankle # None_pt
               /\ left_hip # None_pt /\ right_hip # None_pt
               /\ Abs((left_ankle.y + right_ankle.y) - (left_hip.y + right_hip.y)) > 2 * 30
            THEN Fire(15, "Keep your legs straight and in line with your body")
            ELSE NoRule
        elbows ==
            IF left_elbow # None_pt /\ right_elbow # None_pt
               /\ left_shoulder # None_pt /\ right_shoulder # None_pt
               /\ (DistSq(left_elbow, left_shoulder) > 40 * 40
                   \/ DistSq(right_elbow, right_shoulder) > 40 * 40)
            THEN Fire(15, "Position your elbows directly under your shoulders")
            ELSE NoRule
    IN  Assess(<<line, ankles, elbows>>,
               "Great plank form! Keep your core engaged and breathe steadily.")

\* analyze_jumping_jack with the feet-together rule in every stage but up.
analyze_jumping_jack_FeetAlways(kps, angs) ==
    LET left_shoulder == get_point(kps, "left_shoulder")
        right_shoulder == get_point(kps, "right_shoulder")
        left_hip == get_point(kps, "left_hip")
        right_hip == get_point(kps, "right_hip")
        left_ankle == get_point(kps, "left_ankle")
        right_ankle == get_point(kps, "right_ankle")
        left_wrist == get_point(kps, "left_wrist")
        right_wrist == get_point(kps, "right_wrist")
        stage == detect_exercise_stage("jumping_jack", angs)
        ankle_distance == Abs(left_ankle.x - right_ankle.x)
        hip_distance == Abs(left_hip.x - right_hip.x)
        arms ==
            IF stage = "up"
            THEN (IF ~(left_wrist.y < left_shoulder.y /\ right_wrist.y < right_shoulder.y)
                  THEN Fire(20, "Raise your arms fully above your head") ELSE NoRule)
            ELSE IF stage = "down"
            THEN (IF ~(left_wrist.y > left_hip.y /\ right_wrist.y > right_hip.y)
                  THEN Fire(15, "Bring your arms fully down by your sides") ELSE NoRule)
            ELSE NoRule
        feet ==
            IF stage = "up"
            THEN (IF ankle_distance < hip_distance
                  THEN Fire(15, "Jump wider with your feet") ELSE NoRule)
            ELSE (IF ankle_distance > 30
                  THEN Fire(15, "Bring your feet together between jumps") ELSE NoRule)
        hips ==
            IF Abs(left_hip.y - right_hip.y) > 20
            THEN Fire(10, "Keep your hips level during the exercise")
            ELSE NoRule
    IN  IF left_shoulder = None_pt \/ right_shoulder = None_pt
           \/ left_hip = None_pt \/ right_hip = None_pt
           \/ left_ankle = None_pt \/ right_ankle = None_pt
           \/ left_wrist = None_pt \/ right_wrist = None_pt
        THEN [score |-> 50, rounding |-> 0,
              feedback |-> <<"Cannot fully analyze jumping jack - not all key points detected">>]
        ELSE Assess(<<arms, feet, hips>>,
                    IF stage = "up" THEN "Great form! Full extension of arms and legs."
                    ELSE "Good control on the landing! Maintain rhythm.")

\* analyze_jumping_jack returning 0.0 where it short-circuits.
analyze_jumping_jack_ShortCircuitZero(kps, angs) ==
    LET left_shoulder == get_point(kps, "left_shoulder")
        right_shoulder == get_point(kps, "right_shoulder")
        left_hip == get_point(kps, "left_hip")
        right_hip == get_point(kps, "right_hip")
        left_ankle == get_point(kps, "left_ankle")
        right_ankle == get_point(kps, "right_ankle")
        left_wrist == get_point(kps, "left_wrist")
        right_wrist == get_point(kps, "right_wrist")
        stage == detect_exercise_stage("jumping_jack", angs)
        ankle_distance == Abs(left_ankle.x - right_ankle.x)
        hip_distance == Abs(left_hip.x - right_hip.x)
        arms ==
            IF stage = "up"
            THEN (IF ~(left_wrist.y < left_shoulder.y /\ right_wrist.y < right_shoulder.y)
                  THEN Fire(20, "Raise your arms fully above your head") ELSE NoRule)
            ELSE IF stage = "down"
            THEN (IF ~(left_wrist.y > left_hip.y /\ right_wrist.y > right_hip.y)
                  THEN Fire(15, "Bring your arms fully down by your sides") ELSE NoRule)
            ELSE NoRule
        feet ==
            IF stage = "up"
            THEN (IF ankle_distance < hip_distance
                  THEN Fire(15, "Jump wider with your feet") ELSE NoRule)
            ELSE IF stage = "down"
            THEN (IF ankle_distance > 30
                  THEN Fire(15, "Bring your feet together between jumps") ELSE NoRule)
            ELSE NoRule
        hips ==
            IF Abs(left_hip.y - right_hip.y) > 20
            THEN Fire(10, "Keep your hips level during the exercise")
            ELSE NoRule
    IN  IF left_shoulder = None_pt \/ right_shoulder = None_pt
           \/ left_hip = None_pt \/ right_hip = None_pt
           \/ left_ankle = None_pt \/ right_ankle = None_pt
           \/ left_wrist = None_pt \/ right_wrist = None_pt
        THEN [score |-> 0, rounding |-> 0,
              feedback |-> <<"Cannot fully analyze jumping jack - not all key points detected">>]
        ELSE Assess(<<arms, feet, hips>>,
                    IF stage = "up" THEN "Great form! Full extension of arms and legs."
                    ELSE "Good control on the landing! Maintain rhythm.")

\* _analyze_jumping_jack (lines 572-656)
analyze_jumping_jack(kps, angs) ==
    LET left_shoulder == get_point(kps, "left_shoulder")
        right_shoulder == get_point(kps, "right_shoulder")
        left_hip == get_point(kps, "left_hip")
        right_hip == get_point(kps, "right_hip")
        left_ankle == get_point(kps, "left_ankle")
        right_ankle == get_point(kps, "right_ankle")
        left_wrist == get_point(kps, "left_wrist")
        right_wrist == get_point(kps, "right_wrist")
        stage == detect_exercise_stage("jumping_jack", angs)
        ankle_distance == Abs(left_ankle.x - right_ankle.x)
        hip_distance == Abs(left_hip.x - right_hip.x)
        arms ==
            IF stage = "up"
            THEN (IF ~(left_wrist.y < left_shoulder.y /\ right_wrist.y < right_shoulder.y)
                  THEN Fire(20, "Raise your arms fully above your head") ELSE NoRule)
            ELSE IF stage = "down"
            THEN (IF ~(left_wrist.y > left_hip.y /\ right_wrist.y > right_hip.y)
                  THEN Fire(15, "Bring your arms fully down by your sides") ELSE NoRule)
            ELSE NoRule
        feet ==
            IF stage = "up"
            THEN (IF ankle_distance < hip_distance
                  THEN Fire(15, "Jump wider with your feet") ELSE NoRule)
            ELSE IF stage = "down"
            THEN (IF ankle_distance > 30
                  THEN Fire(15, "Bring your feet together between jumps") ELSE NoRule)
            ELSE NoRule
        hips ==
            IF Abs(left_hip.y - right_hip.y) > 20
            THEN Fire(10, "Keep your hips level during the exercise")
            ELSE NoRule
    IN  IF left_shoulder = None_pt \/ right_shoulder = None_pt
           \/ left_hip = None_pt \/ right_hip = None_pt
           \/ left_ankle = None_pt \/ right_ankle = None_pt
           \/ left_wrist = None_pt \/ right_wrist = None_pt
        THEN [score |-> 50, rounding |-> 0,
              feedback |-> <<"Cannot fully analyze jumping jack - not all key points detected">>]
        ELSE Assess(<<arms, feet, hips>>,
                    IF stage = "up" THEN "Great form! Full extension of arms and legs."
                    ELSE "Good control on the landing! Maintain rhythm.")

\* Whether the rule set raises instead of returning: the distances it takes.
RuleSetRaises(name, kps) ==
    LET left_shoulder == get_point(kps, "left_shoulder")
        right_shoulder == get_point(kps, "right_shoulder")
        left_ankle == get_point(kps, "left_ankle")
        right_ankle == get_point(kps, "right_ankle")
        left_elbow == get_point(kps, "left_elbow")
        right_elbow == get_point(kps, "right_elbow")
    IN  \/ /\ name = "push_up"
           /\ left_ankle # None_pt /\ right_ankle # None_pt
           /\ DistOverflows(left_ankle, right_ankle)
        \/ /\ name = "plank"
           /\ left_elbow # None_pt /\ right_elbow # None_pt
           /\ left_shoulder # None_pt /\ right_shoulder # None_pt
           /\ (DistOverflows(left_elbow, left_shoulder)
               \/ DistOverflows(right_elbow, right_shoulder))

\* self.exercise_types[name](keypoints, angles): the registry's dispatch.
RunRuleSet(name, kps, angs) ==
    CASE name = "push_up" -> analyze_push_up(kps, angs)
      [] name = "squat" -> analyze_squat(kps, angs)
      [] name = "plank" -> analyze_plank(kps, angs)
      [] name = "jumping_jack" -> analyze_jumping_jack(kps, angs)

(***************************************************************************)
(* Input frames: whole-pixel skeletons (y grows downwards), built from the *)
(* left hip by limb vectors, then degraded one landmark at a time.         *)
(***************************************************************************)
\* Frames carry up to MaxExtra entries past the 17 the engine reads.
MaxExtra == 1

\* Translations of a frame are tried up to MaxShift steps each way.
MaxShift == 1

Pt(v) == Landmark(v[1], v[2], 90)

Add(v, w) == <<v[1] + w[1], v[2] + w[2]>>

Mirror(limb) == << <<0 - limb[1][1], limb[1][2]>>, <<0 - limb[2][1], limb[2][2]>> >>

\* The 17 landmarks in index order (lines 21-39): a limb is <<upper, lower>>.
MakeFrame(lh, hipvec, torso, shvec, armL, armR, legL, legR) ==
    LET ls == Add(lh, torso)
        rh == Add(lh, hipvec)
        rs == Add(ls, shvec)
        le == Add(ls, armL[1])
        lw == Add(le, armL[2])
        re == Add(rs, armR[1])
        rw == Add(re, armR[2])
        lk == Add(lh, legL[1])
        la == Add(lk, legL[2])
        rk == Add(rh, legR[1])
        ra == Add(rk, legR[2])
        nose == Add(ls, <<shvec[1] \div 2, 0 - 40>>)
    IN  << Pt(nose), Pt(Add(nose, <<8, 0 - 8>>)), Pt(Add(nose, <<0 - 8, 0 - 8>>)),
           Pt(Add(nose, <<15, 0 - 4>>)), Pt(Add(nose, <<0 - 15, 0 - 4>>)),
           Pt(ls), Pt(rs), Pt(le), Pt(re), Pt(lw), Pt(rw),
           Pt(lh), Pt(rh), Pt(lk), Pt(rk), Pt(la), Pt(ra) >>

Origin == <<300, 300>>

FrontTorsos == { <<0, 0 - 100>>, <<36, 0 - 100>>, <<80, 0 - 60>>, <<0, 0>> }

FrontShoulders == { <<0 - 100, 0>>, <<0 - 150, 0>>, <<0 - 200, 0>> }

FrontArms ==
    { << <<0, 60>>, <<0, 60>> >>,            \* hanging straight
      << <<0, 60>>, <<60, 0>> >>,            \* bent at a right angle
      << <<0, 60>>, <<0, 0 - 40>> >>,        \* folded back onto the upper arm
      << <<40, 0 - 60>>, <<20, 0 - 60>> >>,  \* raised above the head
      << <<0, 0>>, <<0, 60>> >>,             \* elbow on the shoulder
      << <<60, 0>>, <<60, 0>> >>,            \* stretched sideways
      << <<20, 60>>, <<10, 60>> >> }         \* hanging slightly outwards

FrontLegs ==
    { << <<0, 100>>, <<0, 100>> >>,          \* standing
      << <<80, 0>>, <<0, 80>> >>,            \* thighs level
      << <<30, 90>>, <<0 - 30, 90>> >>,      \* slightly bent
      << <<30, 60>>, <<0 - 30, 20>> >>,      \* squatting, feet under the hips
      << <<80, 20>>, <<0 - 40, 70>> >>,      \* knees past the toes
      << <<0, 100>>, <<0, 0 - 60>> >>,       \* shin folded onto the thigh
      << <<60, 0 - 10>>, <<0 - 50, 40>> >>,  \* very deep
      << <<0 - 30, 100>>, <<0, 100>> >>,     \* knees and feet inwards
      << <<4, 100>>, <<0 - 4, 100>> >>,      \* nearly straight: knees at 175 deg
      << <<0 - 30, 100>>, <<0 - 40, 0 - 60>> >> }  \* knees in, feet crossed back

FrontFrames ==
    { MakeFrame(Origin, <<0 - 100, 0>>, t, s, a, Mirror(a), l, Mirror(l)) :
        t \in FrontTorsos, s \in FrontShoulders, a \in FrontArms, l \in FrontLegs }

SideTorsos ==
    { <<100, 0 - 10>>, <<100, 0 - 30>>, <<100, 40>>, <<100, 0 - 40>>, <<100, 29>> }

SideArms ==
    { << <<0, 50>>, <<0, 50>> >>,            \* straight
      << <<0 - 30, 30>>, <<30, 30>> >>,      \* bent at a right angle
      << <<0 - 40, 20>>, <<40, 10>> >>,      \* bent sharply
      << <<0, 50>>, <<0, 0 - 30>> >>,        \* folded back onto the upper arm
      << <<0 - 10, 40>>, <<40, 20>> >>,      \* a little past a right angle
      << <<0, 50>>, <<8, 50>> >>,            \* nearly straight
      << <<0, 30>>, <<0, 30>> >> }           \* straight, elbow near the shoulder

\* <<left leg, right leg>>
SideLegs ==
    { << << <<0 - 100, 5>>, <<0 - 100, 5>> >>, << <<0 - 100, 5>>, <<0 - 100, 5>> >> >>,
      << << <<0 - 100, 5>>, <<0 - 100, 5>> >>, << <<0 - 100, 40>>, <<0 - 100, 40>> >> >>,
      << << <<0 - 100, 40>>, <<0 - 20, 0 - 60>> >>, << <<0 - 100, 40>>, <<0 - 20, 0 - 60>> >> >> }

SideFrames ==
    { MakeFrame(Origin, <<0 - 10, 0>>, t, <<0 - 10, 0>>, a, a, l[1], l[2]) :
        t \in SideTorsos, a \in SideArms, l \in SideLegs }

\* The three frames that are degraded: a squat, a push-up and a jumping jack.
SquatFrame ==
    MakeFrame(Origin, <<0 - 100, 0>>, <<36, 0 - 100>>, <<0 - 100, 0>>,
              << <<0, 60>>, <<60, 0>> >>, << <<0, 60>>, <<0 - 60, 0>> >>,
              << <<30, 60>>, <<0 - 30, 20>> >>, << <<0 - 30, 60>>, <<30, 20>> >>)

PushUpFrame ==
    MakeFrame(Origin, <<0 - 10, 0>>, <<100, 0 - 10>>, <<0 - 10, 0>>,
              << <<0 - 30, 30>>, <<30, 30>> >>, << <<0 - 30, 30>>, <<30, 30>> >>,
              << <<0 - 100, 5>>, <<0 - 100, 5>> >>, << <<0 - 100, 5>>, <<0 - 100, 5>> >>)

JackFrame ==
    MakeFrame(Origin, <<0 - 100, 0>>, <<0, 0 - 100>>, <<0 - 200, 0>>,
              << <<40, 0 - 60>>, <<20, 0 - 60>> >>, << <<0 - 40, 0 - 60>>, <<0 - 20, 0 - 60>> >>,
              << <<0, 100>>, <<0, 100>> >>, << <<0, 100>>, <<0, 100>> >>)

BaseFrames == {SquatFrame, PushUpFrame, JackFrame}

EditKinds == {"no_x", "no_y", "no_score", "low", "edge", "zero", "dx", "dy", "huge"}

\* One landmark of a caller's frame, degraded or displaced.
EditLandmark(k, kind) ==
    CASE kind = "no_x" -> [k EXCEPT !.has = @ \ {"x"}]
      [] kind = "no_y" -> [k EXCEPT !.has = @ \ {"y"}]
      [] kind = "no_score" -> [k EXCEPT !.has = @ \ {"score"}]
      [] kind = "low" -> [k EXCEPT !.score = 19]
      [] kind = "edge" -> [k EXCEPT !.score = 20]
      [] kind = "zero" -> [k EXCEPT !.score = 0]
      [] kind = "dx" -> [k EXCEPT !.x = @ + 40]
      [] kind = "dy" -> [k EXCEPT !.y = @ + 40]
      [] kind = "huge" -> [k EXCEPT !.x = Huge]

EditedFrames ==
    { [f EXCEPT ![i] = EditLandmark(@, kind)] :
        f \in BaseFrames, i \in 1..17, kind \in EditKinds }

\* Frames of the wrong length: cut short, or with entries past the 17th.
ShortLengths == {0, 10, 13, 14, 16}

ShortFrames == { SubSeq(f, 1, n) : f \in BaseFrames, n \in ShortLengths }

RECURSIVE Extend(_, _)
Extend(f, n) == IF n = 0 THEN f ELSE Extend(Append(f, Landmark(0, 0, 90)), n - 1)

LongFrames == { Extend(f, n) : f \in BaseFrames, n \in 1..MaxExtra }

Frames == FrontFrames \cup SideFrames \cup EditedFrames \cup ShortFrames \cup LongFrames

\* The hint: absent, empty, a registered name or another string.
Hints == {None_str, "", "push_up", "squat", "plank", "jumping_jack", "yoga"}

(***************************************************************************)
(* PoseAnalyzer.__init__ (lines 12-39) and analyze_exercise (lines 41-80)  *)
(***************************************************************************)
Init ==
    /\ exercise_types = {"push_up", "squat", "plank", "jumping_jack"}
    /\ joint_indices =
           [nose |-> 0, left_eye |-> 1, right_eye |-> 2, left_ear |-> 3,
            right_ear |-> 4, left_shoulder |-> 5, right_shoulder |-> 6,
            left_elbow |-> 7, right_elbow |-> 8, left_wrist |-> 9,
            right_wrist |-> 10, left_hip |-> 11, right_hip |-> 12,
            left_knee |-> 13, right_knee |-> 14, left_ankle |-> 15,
            right_ankle |-> 16]
    /\ keypoints \in Frames
    /\ exercise_type \in Hints
    /\ pc = "call"
    /\ angles = << >>
    /\ detected_type = None_str
    /\ response = << >>
    /\ calls = << >>

\* An exception left one of the angle computations.
Raises(angs) == \E k \in DOMAIN angs : angs[k] \in {ZeroDivisionError, OverflowError}

\* Line 53: angles = self._calculate_joint_angles(keypoints)
CalcAngles ==
    /\ pc = "call"
    /\ LET a == calculate_joint_angles(keypoints) IN
       IF Raises(a)
       THEN pc' = "raised" /\ UNCHANGED angles
       ELSE pc' = "angles" /\ angles' = a
    /\ UNCHANGED <<calls, exercise_types, joint_indices, keypoints, exercise_type,
                   detected_type, response>>

\* Falsy with only None counted as no hint.
Falsy_NoneOnly(str) == str = None_str

\* "not detected_type": None and the empty string are false.
Falsy(str) == str = None_str \/ str = ""

\* DetectType with the classifier asked first and the hint used only for a
\* frame the classifier leaves undetected.
DetectType_ClassifierFirst ==
    /\ pc = "angles"
    /\ LET c == detect_exercise_type(keypoints, angles)
           t == IF c # None_str \/ Falsy(exercise_type) THEN c ELSE exercise_type
       IN  /\ detected_type' = t
           /\ response' = [exercise_detected |-> t # None_str,
                           exercise_type |-> IF Falsy(t) THEN "unknown" ELSE t,
                           form_score |-> 0,
                           feedback |-> <<"No valid exercise detected">>,
                           joint_angles |-> angles]
    /\ pc' = "typed"
    /\ UNCHANGED <<calls, exercise_types, joint_indices, keypoints, exercise_type, angles>>

\* Lines 56-67: the hint or the classifier, then the default response.
DetectType ==
    /\ pc = "angles"
    /\ LET t == IF Falsy(exercise_type)
                THEN detect_exercise_type(keypoints, angles)
                ELSE exercise_type
       IN  /\ detected_type' = t
           /\ response' = [exercise_detected |-> t # None_str,
                           exercise_type |-> IF Falsy(t) THEN "unknown" ELSE t,
                           form_score |-> 0,
                           feedback |-> <<"No valid exercise detected">>,
                           joint_angles |-> angles]
    /\ pc' = "typed"
    /\ UNCHANGED <<calls, exercise_types, joint_indices, keypoints, exercise_type, angles>>

\* Score with the facade's stage detection done first, in the same step.
Score_StageFirst ==
    /\ pc = "typed"
    /\ detected_type \in exercise_types
    /\ IF RuleSetRaises(detected_type, keypoints)
       THEN pc' = "raised" /\ UNCHANGED response
       ELSE LET r == RunRuleSet(detected_type, keypoints, angles) IN
            /\ response' = [response EXCEPT !.form_score = r.score,
                                            !.feedback = r.feedback]
                            @@ [stage |-> detect_exercise_stage(detected_type, angles)]
            /\ pc' = "scored"
    /\ UNCHANGED <<calls, exercise_types, joint_indices, keypoints, exercise_type,
                   angles, detected_type>>

\* Lines 70-75: the registered rule set gives the score and the feedback.
Score ==
    /\ pc = "typed"
    /\ detected_type \in exercise_types
    /\ IF RuleSetRaises(detected_type, keypoints)
       THEN pc' = "raised" /\ UNCHANGED response
       ELSE LET r == RunRuleSet(detected_type, keypoints, angles) IN
            /\ response' = [response EXCEPT !.form_score = r.score,
                                            !.feedback = r.feedback]
            /\ pc' = "scored"
    /\ UNCHANGED <<calls, exercise_types, joint_indices, keypoints, exercise_type,
                   angles, detected_type>>

\* Lines 77-78: response["stage"] = self._detect_exercise_stage(...)
Stage ==
    /\ pc = "scored"
    /\ response' = response @@ [stage |-> detect_exercise_stage(detected_type, angles)]
    /\ pc' = "staged"
    /\ UNCHANGED <<calls, exercise_types, joint_indices, keypoints, exercise_type,
                   angles, detected_type>>

\* Line 80: return response
Return ==
    /\ \/ pc = "staged"
       \/ pc = "typed" /\ detected_type \notin exercise_types
    /\ pc' = "done"
    /\ UNCHANGED <<calls, exercise_types, joint_indices, keypoints, exercise_type,
                   angles, detected_type, response>>

Next == CalcAngles \/ DetectType \/ Score \/ Stage \/ Return

Spec == Init /\ [][Next]_vars

(***************************************************************************)
(* The shared instance: main.py (line 30) builds one PoseAnalyzer and the  *)
(* endpoint (lines 46-62) calls analyze_exercise on it for every request.  *)
(* Each caller runs the statements of analyze_exercise on its own locals;  *)
(* the steps of different callers interleave freely.                       *)
(***************************************************************************)
\* The number of concurrent callers.
NumCallers == 2

Callers == 1..NumCallers

\* A caller that has no call in progress and no result.
IdleCall ==
    [keypoints |-> << >>, given |-> << >>, exercise_type |-> None_str,
     pc |-> "idle", angles |-> << >>, detected_type |-> None_str,
     response |-> << >>]

SharedFrames ==
    { SquatFrame, PushUpFrame, SubSeq(JackFrame, 1, 10),
      [SquatFrame EXCEPT ![6] = EditLandmark(@, "huge")] }

SharedHints == {None_str, "plank"}

\* The outcome of a call that raised.
Raised == [raised |-> TRUE]

\* analyze_exercise (lines 41-80) as a function of its two arguments: the
\* assessment a call returns when it runs from its first statement to its
\* last with nothing else running.
analyze_exercise(kps, hint) ==
    LET angs == calculate_joint_angles(kps) IN
    IF Raises(angs) THEN Raised
    ELSE LET t == IF Falsy(hint) THEN detect_exercise_type(kps, angs) ELSE hint
             default == [exercise_detected |-> t # None_str,
                         exercise_type |-> IF Falsy(t) THEN "unknown" ELSE t,
                         form_score |-> 0,
                         feedback |-> <<"No valid exercise detected">>,
                         joint_angles |-> angs]
         IN  IF t \notin exercise_types THEN default
             ELSE IF RuleSetRaises(t, kps) THEN Raised
             ELSE LET r == RunRuleSet(t, kps, angs) IN
                  [default EXCEPT !.form_score = r.score, !.feedback = r.feedback]
                  @@ [stage |-> detect_exercise_stage(t, angs)]

InitShared ==
    /\ exercise_types = {"push_up", "squat", "plank", "jumping_jack"}
    /\ joint_indices =
           [nose |-> 0, left_eye |-> 1, right_eye |-> 2, left_ear |-> 3,
            right_ear |-> 4, left_shoulder |-> 5, right_shoulder |-> 6,
            left_elbow |-> 7, right_elbow |-> 8, left_wrist |-> 9,
            right_wrist |-> 10, left_hip |-> 11, right_hip |-> 12,
            left_knee |-> 13, right_knee |-> 14, left_ankle |-> 15,
            right_ankle |-> 16]
    /\ keypoints = << >>
    /\ exercise_type = None_str
    /\ pc = "idle"
    /\ angles = << >>
    /\ detected_type = None_str
    /\ response = << >>
    /\ calls = [c \in Callers |-> IdleCall]

\* What a step of a caller leaves alone: the instance and the other locals.
SharedRest ==
    UNCHANGED <<exercise_types, joint_indices, keypoints, exercise_type, pc,
                angles, detected_type, response>>

\* main.py line 59: a caller with no call in progress makes one, with a frame
\* and a hint of its own.
SharedCall(c) ==
    /\ calls[c].pc \in {"idle", "done", "raised"}
    /\ \E f \in SharedFrames, h \in SharedHints :
           calls' = [calls EXCEPT ![c] =
                        [IdleCall EXCEPT !.keypoints = f, !.given = f,
                                         !.exercise_type = h, !.pc = "call"]]
    /\ SharedRest

\* SharedCalcAngles with the angles kept in a field of the instance, which
\* every call in progress then reads.
SharedCalcAngles_OnInstance(c) ==
    /\ calls[c].pc = "call"
    /\ LET a == calculate_joint_angles(calls[c].keypoints) IN
       IF Raises(a)
       THEN calls' = [calls EXCEPT ![c].pc = "raised"]
       ELSE calls' = [d \in Callers |->
                         IF d = c THEN [calls[d] EXCEPT !.pc = "angles", !.angles = a]
                         ELSE IF calls[d].pc \in {"angles", "typed", "scored"}
                         THEN [calls[d] EXCEPT !.angles = a]
                         ELSE calls[d]]
    /\ SharedRest

\* Line 53 in caller c.
SharedCalcAngles(c) ==
    /\ calls[c].pc = "call"
    /\ LET a == calculate_joint_angles(calls[c].keypoints) IN
       IF Raises(a)
       THEN calls' = [calls EXCEPT ![c].pc = "raised"]
       ELSE calls' = [calls EXCEPT ![c].pc = "angles", ![c].angles = a]
    /\ SharedRest

\* Lines 56-67 in caller c.
SharedDetectType(c) ==
    /\ calls[c].pc = "angles"
    /\ LET t == IF Falsy(calls[c].exercise_type)
                THEN detect_exercise_type(calls[c].keypoints, calls[c].angles)
                ELSE calls[c].exercise_type
       IN  calls' = [calls EXCEPT
                        ![c].detected_type = t,
                        ![c].response =
                            [exercise_detected |-> t # None_str,
                             exercise_type |-> IF Falsy(t) THEN "unknown" ELSE t,
                             form_score |-> 0,
                             feedback |-> <<"No valid exercise detected">>,
                             joint_angles |-> calls[c].angles],
                        ![c].pc = "typed"]
    /\ SharedRest

\* Lines 70-75 in caller c.
SharedScore(c) ==
    /\ calls[c].pc = "typed"
    /\ calls[c].detected_type \in exercise_types
    /\ IF RuleSetRaises(calls[c].detected_type, calls[c].keypoints)
       THEN calls' = [calls EXCEPT ![c].pc = "raised"]
       ELSE LET r == RunRuleSet(calls[c].detected_type, calls[c].keypoints,
                                calls[c].angles)
            IN  calls' = [calls EXCEPT ![c].response.form_score = r.score,
                                       ![c].response.feedback = r.feedback,
                                       ![c].pc = "scored"]
    /\ SharedRest

\* Lines 77-78 in caller c.
SharedStage(c) ==
    /\ calls[c].pc = "scored"
    /\ calls' = [calls EXCEPT
                    ![c].response =
                        @ @@ [stage |-> detect_exercise_stage(calls[c].detected_type,
                                                              calls[c].angles)],
                    ![c].pc = "staged"]
    /\ SharedRest

\* Line 80 in caller c.
SharedReturn(c) ==
    /\ \/ calls[c].pc = "staged"
       \/ calls[c].pc = "typed" /\ calls[c].detected_type \notin exercise_types
    /\ calls' = [calls EXCEPT ![c].pc = "done"]
    /\ SharedRest

NextShared ==
    \E c \in Callers :
        \/ SharedCall(c)
        \/ SharedCalcAngles(c)
        \/ SharedDetectType(c)
        \/ SharedScore(c)
        \/ SharedStage(c)
        \/ SharedReturn(c)

SpecShared == InitShared /\ [][NextShared]_vars

(***************************************************************************)
(* Properties                                                              *)
(***************************************************************************)
\* The landmark at index i of the caller's frame, and what it carries.
Lm(i) == keypoints[i + 1]

HasXY(i) == i < Len(keypoints) /\ {"x", "y"} \subseteq Lm(i).has

BelowThreshold(i) == i < Len(keypoints) /\ "score" \in Lm(i).has /\ Lm(i).score < 20

SamePlace(i, j) == Lm(i).x = Lm(j).x /\ Lm(i).y = Lm(j).y

Ordinary(i) == Lm(i).x # Huge

\* A frame of exactly 17 landmarks that all carry x and y.
ValidFrame == Len(keypoints) = 17 /\ \A i \in 0..16 : HasXY(i)

\* The eight angles between landmarks, as <<neighbour, vertex, neighbour>>
\* indices (spec 4.1); torso_vertical has the vertex 11 and the neighbour 5.
Triples ==
    [left_elbow |-> <<5, 7, 9>>, right_elbow |-> <<6, 8, 10>>,
     left_shoulder |-> <<7, 5, 11>>, right_shoulder |-> <<8, 6, 12>>,
     left_hip |-> <<5, 11, 13>>, right_hip |-> <<6, 12, 14>>,
     left_knee |-> <<11, 13, 15>>, right_knee |-> <<12, 14, 16>>]

Absent(name) == name \notin DOMAIN angles \/ angles[name] = None_angle

AnglesComputed == pc \in {"angles", "typed", "scored", "staged", "done"}

Horizontal ==
    /\ HasXY(5) /\ HasXY(6) /\ HasXY(11) /\ HasXY(12)
    /\ Abs((Lm(5).y + Lm(6).y) - (Lm(11).y + Lm(12).y)) < 60

\* C1: for a frame of 17 landmarks that all carry x and y, and any hint, the
\* returned assessment has a form score in [0.0, 1.0] and at least one
\* feedback message.
C1_ScoreAndFeedback ==
    (pc = "done" /\ ValidFrame) =>
        /\ response.form_score >= 0 /\ response.form_score <= 100
        /\ Len(response.feedback) >= 1

\* A valid frame scored by a rule set none of whose rules fired.
C1_Witness ==
    /\ pc = "done" /\ ValidFrame
    /\ response.form_score = 100
    /\ response.feedback = <<"Excellent squat form! Keep your weight in your heels.">>

\* C2: a frame with fewer than 17 landmarks gets an invalid-input outcome,
\* never an exercise classification, a stage or a rule set's score.
C2_ShortFrameRejected ==
    (Len(keypoints) < 17) =>
        /\ pc \notin {"scored", "staged"}
        /\ pc = "done" =>
               /\ ~response.exercise_detected
               /\ "stage" \notin DOMAIN response
               /\ response.form_score = 0

\* C3: a 17-entry frame with a landmark lacking x or y gets an invalid-input
\* outcome; it is not classified and scored as if the landmark were missing.
C3_MissingCoordinateRejected ==
    (Len(keypoints) = 17 /\ \E i \in 0..16 : ~HasXY(i)) =>
        /\ pc \notin {"scored", "staged"}
        /\ pc = "done" =>
               /\ ~response.exercise_detected
               /\ "stage" \notin DOMAIN response
               /\ response.form_score = 0

\* C4: for every frame (any length, fields numeric or missing) and every hint
\* the call runs to its return with an assessment record; no step raises.
C4_NeverRaises ==
    /\ pc # "raised"
    /\ pc = "done" =>
           {"exercise_detected", "exercise_type", "form_score", "feedback",
            "joint_angles"} \subseteq DOMAIN response

\* C5: an angle is absent when a landmark of its triple has a confidence that
\* is present and below 0.2; a confidence of exactly 0.2, or none at all, does
\* not make it absent: with the three landmarks in place, apart from each
\* other and none below 0.2, the angle is present.
C5_ConfidenceGate ==
    (AnglesComputed /\ Len(keypoints) >= 17) =>
        /\ \A name \in DOMAIN Triples :
               LET t == Triples[name] IN
               /\ (\E n \in 1..3 : BelowThreshold(t[n])) => Absent(name)
               /\ ( /\ \A n \in 1..3 : HasXY(t[n]) /\ ~BelowThreshold(t[n])
                    /\ ~SamePlace(t[1], t[2]) /\ ~SamePlace(t[3], t[2]) )
                  => ~Absent(name)
        /\ (BelowThreshold(11) \/ BelowThreshold(5)) => Absent("torso_vertical")
        /\ ( /\ HasXY(11) /\ HasXY(5) /\ ~BelowThreshold(11) /\ ~BelowThreshold(5)
             /\ ~SamePlace(5, 11) )
           => ~Absent("torso_vertical")

\* The left elbow's confidence is 0.19 and the left elbow angle is absent,
\* while the right elbow angle of the same frame is present.
C5_Witness ==
    /\ pc = "done" /\ ValidFrame
    /\ Lm(7).score = 19 /\ "score" \in Lm(7).has
    /\ angles["left_elbow"] = None_angle
    /\ angles["right_elbow"] # None_angle

\* C6: when the vertex of an angle coincides with one of its two neighbours
\* the angle is absent: nothing raises and no value, 0 included, is made up.
C6_DegenerateIsAbsent ==
    (Len(keypoints) >= 17 /\ pc # "call") =>
        /\ \A name \in DOMAIN Triples :
               LET t == Triples[name] IN
               ( /\ \A n \in 1..3 : HasXY(t[n]) /\ Ordinary(t[n])
                 /\ SamePlace(t[1], t[2]) \/ SamePlace(t[3], t[2]) )
               => (pc # "raised" /\ name \in DOMAIN angles
                   /\ angles[name] = None_angle)
        /\ (HasXY(5) /\ HasXY(11) /\ SamePlace(5, 11))
           => (pc # "raised" /\ "torso_vertical" \in DOMAIN angles
               /\ angles["torso_vertical"] = None_angle)

\* The elbows lie on the shoulders: the elbow angles are absent while the
\* knee angles of the same frame are computed.
C6_Witness ==
    /\ pc = "done" /\ ValidFrame
    /\ SamePlace(5, 7) /\ SamePlace(6, 8)
    /\ angles["left_elbow"] = None_angle /\ angles["right_elbow"] = None_angle
    /\ angles["left_knee"] \notin {None_angle, 0}

\* C7: an angle of exactly 0 degrees is a present value, used as the number 0:
\* without a hint, both elbow angles 0 on a horizontal torso classify as
\* push_up in stage down.
C7_ZeroAngleIsPresent ==
    ( /\ pc = "done" /\ ValidFrame /\ Falsy(exercise_type) /\ Horizontal
      /\ angles["left_elbow"] = 0 /\ angles["right_elbow"] = 0 )
    => ( /\ response.exercise_type = "push_up"
         /\ "stage" \in DOMAIN response
         /\ response.stage = "down" )

\* C8: every value present in the Joint Angle Set lies in [0, 180] degrees.
C8_AngleRange ==
    \A name \in DOMAIN angles :
        angles[name] # None_angle => (angles[name] >= 0 /\ angles[name] <= 18000)

\* A computed angle set holding both ends of the range, 0 and 180 degrees.
C8_Witness ==
    /\ pc = "angles"
    /\ \E name \in DOMAIN angles : angles[name] = 0
    /\ \E name \in DOMAIN angles : angles[name] = 18000

\* The frame with every landmark moved by the same offset.
Translate(kps, dx, dy) ==
    [i \in DOMAIN kps |-> [kps[i] EXCEPT !.x = @ + dx, !.y = @ + dy]]

Shifts == { <<37 * i, 53 * j>> : i \in (0 - MaxShift)..MaxShift,
                                  j \in (0 - MaxShift)..MaxShift }

C10_Rule1First ==
    ( /\ pc = "typed" /\ Falsy(exercise_type) /\ Horizontal
      /\ ~Absent("left_elbow") /\ ~Absent("right_elbow") )
    => detected_type = IF angles["left_elbow"] + angles["right_elbow"] < 24000
                       THEN "push_up" ELSE "plank"

\* The classifier's rule 1 cannot classify: the four torso landmarks are there
\* and the torso is not horizontal or an elbow angle is unavailable.
Rule1Silent ==
    /\ HasXY(5) /\ HasXY(6) /\ HasXY(11) /\ HasXY(12)
    /\ (~Horizontal \/ Absent("left_elbow") \/ Absent("right_elbow"))

\* Both knee angles are present and their average is below 160 degrees.
KneesBent ==
    /\ ~Absent("left_knee") /\ ~Absent("right_knee")
    /\ angles["left_knee"] + angles["right_knee"] < 2 * 16000

\* C11: when rule 1 does not classify (torso distance >= 30, or an elbow angle
\* unavailable), the classifier answers squat exactly when both knee angles
\* are present and average below 160 degrees, whatever the widths are.
C11_Rule2Second ==
    (pc = "typed" /\ Falsy(exercise_type) /\ Rule1Silent) =>
        (detected_type = "squat" <=> KneesBent)

ShoulderWidth == Abs(Lm(5).x - Lm(6).x)

HipWidth == Abs(Lm(11).x - Lm(12).x)

\* C12: when neither rule 1 nor rule 2 classifies, the classifier answers
\* jumping_jack exactly when the shoulder width is strictly above 1.5 times
\* the hip width, and undetected otherwise.
C12_WidthRuleLast ==
    (pc = "typed" /\ Falsy(exercise_type) /\ Rule1Silent /\ ~KneesBent) =>
        detected_type = IF 2 * ShoulderWidth > 3 * HipWidth
                        THEN "jumping_jack" ELSE None_str

\* The scenario of the claim: shoulders 200 wide, hips 100 wide, the knees at
\* about 175 degrees, an upright torso, classified jumping_jack.
C12_Witness ==
    /\ pc = "typed" /\ exercise_type = None_str /\ ValidFrame
    /\ ShoulderWidth = 200 /\ HipWidth = 100 /\ ~Horizontal
    /\ angles["left_knee"] > 17500 /\ angles["left_knee"] < 17600
    /\ angles["right_knee"] = angles["left_knee"]
    /\ detected_type = "jumping_jack"

\* C13: the classifier answers undetected whenever one of left_shoulder,
\* right_shoulder, left_hip, right_hip is not in the frame, whatever the
\* angles and the other landmarks are.
C13_TorsoLandmarksRequired ==
    ( /\ pc = "typed" /\ Falsy(exercise_type)
      /\ ~(HasXY(5) /\ HasXY(6) /\ HasXY(11) /\ HasXY(12)) )
    => detected_type = None_str

\* The frame with the coordinates of its right hip restored.
RightHipRestored == [keypoints EXCEPT ![13].has = @ \cup {"x", "y"}]

\* A 17-landmark frame whose right hip lacks a coordinate is left undetected,
\* with the left knee and elbow angles computed; the same frame with the
\* right hip in place is classified.
C13_Witness ==
    /\ pc = "typed" /\ exercise_type = None_str
    /\ Len(keypoints) = 17 /\ ~HasXY(12) /\ HasXY(5) /\ HasXY(6) /\ HasXY(11)
    /\ ~Absent("left_knee") /\ ~Absent("left_elbow")
    /\ detected_type = None_str
    /\ detect_exercise_type(RightHipRestored,
                            calculate_joint_angles(RightHipRestored)) # None_str

\* The stage decided from twice an average: below lo is "down" and above hi
\* is "up" for push_up and squat.
DownUp(sum2, lo, hi) ==
    IF sum2 < 2 * lo THEN "down" ELSE IF sum2 > 2 * hi THEN "up" ELSE "neutral"

\* For jumping_jack: above hi is "up" and below lo is "down".
UpDown(sum2, lo, hi) ==
    IF sum2 > 2 * hi THEN "up" ELSE IF sum2 < 2 * lo THEN "down" ELSE "neutral"

BothPresent(a, b) == ~Absent(a) /\ ~Absent(b)

\* C14: with both relevant angles present the stage is, for push_up, down
\* below an elbow average of 100, up above 160, else neutral; for squat, down
\* below a knee average of 120, up above 160, else neutral; for jumping_jack,
\* up above a shoulder average of 80, down below 30, else neutral; for plank
\* always neutral.  The comparisons are strict.
C14_StageThresholds ==
    (pc = "staged") =>
        /\ (detected_type = "push_up" /\ BothPresent("left_elbow", "right_elbow"))
           => response.stage =
                  DownUp(angles["left_elbow"] + angles["right_elbow"], 10000, 16000)
        /\ (detected_type = "squat" /\ BothPresent("left_knee", "right_knee"))
           => response.stage =
                  DownUp(angles["left_knee"] + angles["right_knee"], 12000, 16000)
        /\ (detected_type = "jumping_jack"
            /\ BothPresent("left_shoulder", "right_shoulder"))
           => response.stage =
                  UpDown(angles["left_shoulder"] + angles["right_shoulder"], 3000, 8000)
        /\ detected_type = "plank" => response.stage = "neutral"

\* The angle, or 180 degrees when it is missing.
Or180(name) == IF Absent(name) THEN 18000 ELSE angles[name]

\* C15: in push_up and squat stage detection each missing angle is replaced
\* by 180 degrees on its own before the comparison: both absent give up, one
\* absent and the other equal to a give the stage of the average (a + 180) / 2.
C15_MissingAngleIs180 ==
    (pc = "staged") =>
        /\ (detected_type = "push_up"
            /\ (Absent("left_elbow") \/ Absent("right_elbow")))
           => response.stage =
                  DownUp(Or180("left_elbow") + Or180("right_elbow"), 10000, 16000)
        /\ (detected_type = "squat"
            /\ (Absent("left_knee") \/ Absent("right_knee")))
           => response.stage =
                  DownUp(Or180("left_knee") + Or180("right_knee"), 12000, 16000)

\* C16: in jumping_jack stage detection a missing shoulder angle counts as 180
\* degrees, so with both shoulder angles absent the stage is up.
C16_JackMissingShoulderIsUp ==
    ( /\ pc = "staged" /\ detected_type = "jumping_jack"
      /\ (Absent("left_shoulder") \/ Absent("right_shoulder")) )
    => /\ response.stage =
              UpDown(Or180("left_shoulder") + Or180("right_shoulder"), 3000, 8000)
       /\ (Absent("left_shoulder") /\ Absent("right_shoulder"))
          => response.stage = "up"

\* What the classifier makes of the caller's frame.
Classified == detect_exercise_type(keypoints, calculate_joint_angles(keypoints))

\* C17: with no hint (absent or empty) and a frame the classifier leaves
\* undetected, the call returns exercise_detected false, exercise_type
\* "unknown", form_score 0.0, the single no-valid-exercise message and the
\* computed angles, with no stage, and neither the stage detector nor a
\* rule set is run.
C17_UndetectedAssessment ==
    ( /\ exercise_type \in {None_str, ""}
      /\ pc \in {"typed", "scored", "staged", "done"}
      /\ Classified = None_str )
    => /\ pc \in {"typed", "done"}
       /\ pc = "done" =>
              response = [exercise_detected |-> FALSE,
                          exercise_type |-> "unknown",
                          form_score |-> 0,
                          feedback |-> <<"No valid exercise detected">>,
                          joint_angles |-> calculate_joint_angles(keypoints)]

\* A whole frame standing upright, given with the empty hint, comes back
\* undetected with its angles.
C17_Witness ==
    /\ pc = "done" /\ exercise_type = "" /\ ValidFrame
    /\ ~response.exercise_detected /\ response.exercise_type = "unknown"
    /\ response.joint_angles["left_knee"] = 18000
    /\ "stage" \notin DOMAIN response

RegisteredNames == {"push_up", "squat", "plank", "jumping_jack"}

\* C18: when the hint names push_up, squat, plank or jumping_jack the
\* classifier is not consulted: exercise_detected is true, exercise_type is
\* the hint, and score, feedback and stage are those of the hint's rule set
\* and stage rule, whatever the classifier would make of the frame.
C18_HintDecides ==
    (pc = "done" /\ exercise_type \in RegisteredNames) =>
        /\ response.exercise_detected
        /\ response.exercise_type = exercise_type
        /\ response.form_score = RunRuleSet(exercise_type, keypoints, angles).score
        /\ response.feedback = RunRuleSet(exercise_type, keypoints, angles).feedback
        /\ "stage" \in DOMAIN response
        /\ response.stage = detect_exercise_stage(exercise_type, angles)

\* A frame the classifier labels squat, analysed as a plank on the hint.
C18_Witness ==
    /\ pc = "done" /\ exercise_type = "plank" /\ ValidFrame
    /\ Classified = "squat"
    /\ response.exercise_type = "plank" /\ response.stage = "neutral"
    /\ response.form_score < 100

\* C19: the exercise_type of every assessment is push_up, squat, plank,
\* jumping_jack or unknown, and it is "unknown" exactly when exercise_detected
\* is false, for every frame and every hint string.
C19_ExerciseTypeDomain ==
    (pc = "done") =>
        /\ response.exercise_type \in RegisteredNames \cup {"unknown"}
        /\ response.exercise_type = "unknown" <=> ~response.exercise_detected

\* The instance as __init__ leaves it.
InstanceAsBuilt ==
    /\ exercise_types = RegisteredNames
    /\ DOMAIN joint_indices =
           {"nose", "left_eye", "right_eye", "left_ear", "right_ear",
            "left_shoulder", "right_shoulder", "left_elbow", "right_elbow",
            "left_wrist", "right_wrist", "left_hip", "right_hip", "left_knee",
            "right_knee", "left_ankle", "right_ankle"}
    /\ joint_indices["nose"] = 0 /\ joint_indices["left_shoulder"] = 5
    /\ joint_indices["right_shoulder"] = 6 /\ joint_indices["left_elbow"] = 7
    /\ joint_indices["right_elbow"] = 8 /\ joint_indices["left_wrist"] = 9
    /\ joint_indices["right_wrist"] = 10 /\ joint_indices["left_hip"] = 11
    /\ joint_indices["right_hip"] = 12 /\ joint_indices["left_knee"] = 13
    /\ joint_indices["right_knee"] = 14 /\ joint_indices["left_ankle"] = 15
    /\ joint_indices["right_ankle"] = 16

\* C20: over any number of calls on the shared instance, in any interleaving
\* of the callers, the registry, the landmark index map and the callers'
\* frames are never modified, and every call ends with the assessment (or the
\* exception) it would end with if it were the only call made with its frame
\* and hint, so that identical inputs give identical assessments.
C20_Stateless ==
    /\ InstanceAsBuilt
    /\ \A c \in Callers :
           /\ calls[c].keypoints = calls[c].given
           /\ calls[c].pc = "done" =>
                  calls[c].response =
                      analyze_exercise(calls[c].given, calls[c].exercise_type)
           /\ calls[c].pc = "raised" =>
                  analyze_exercise(calls[c].given, calls[c].exercise_type) = Raised
    /\ \A c, d \in Callers :
           ( /\ calls[c].pc = "done" /\ calls[d].pc = "done"
             /\ calls[c].given = calls[d].given
             /\ calls[c].exercise_type = calls[d].exercise_type )
           => calls[c].response = calls[d].response

\* One caller has its push-up assessment while the other is in the middle of
\* a call on another frame, its angles computed and its type not yet decided.
C20_Witness ==
    /\ calls[1].pc = "done" /\ calls[1].given = PushUpFrame
    /\ calls[1].response.exercise_type = "push_up"
    /\ calls[2].pc = "angles" /\ calls[2].given = SquatFrame

\* The angles are complete before the classifier starts.
AnglesBeforeClassifier ==
    /\ pc \in {"call", "angles"} => (detected_type = None_str /\ response = << >>)
    /\ pc \in {"angles", "typed", "scored", "staged", "done"}
       => angles = calculate_joint_angles(keypoints)

C22_StageAlwaysThere ==
    (pc = "done") =>
        /\ "stage" \in DOMAIN response
        /\ response.stage \in {"up", "down", "neutral"}

\* A row of a rule table: its penalty and its message when its condition holds.
Row(condition, penalty, message) == IF condition THEN Fire(penalty, message) ELSE NoRule

\* What a rule table asks for: 1.0 minus the penalties of the rows that hold
\* and their messages in order, or the affirmative message alone.
Expected(rows, affirmative) ==
    [score |-> 100 - SumPen(rows),
     feedback |-> IF AllMsgs(rows) = << >> THEN <<affirmative>> ELSE AllMsgs(rows)]

\* The first 17 landmarks are all there with x and y.
AllLandmarks == Len(keypoints) >= 17 /\ \A i \in 0..16 : HasXY(i)

\* The assessment of a call that returned with the rule set of the type.
Assessed(type) == pc = "done" /\ detected_type = type

\* Twice the average of two angles that are both present, else nothing.
Avg2(a, b) == IF BothPresent(a, b) THEN angles[a] + angles[b] ELSE None_angle

InStage(stage) == "stage" \in DOMAIN response /\ response.stage = stage

\* The squat table of spec 4.4, on the stage the assessment reports.
SquatTable ==
    LET knees == Avg2("left_knee", "right_knee")
        ankle_distance == Abs(Lm(15).x - Lm(16).x)
        knee_width == Abs(Lm(13).x - Lm(14).x)
    IN  << Row(InStage("down") /\ knees # None_angle /\ knees > 2 * 14000, 25,
               "Squat deeper - aim for thighs parallel to the ground"),
           Row(InStage("down") /\ knees # None_angle /\ knees < 2 * 7000, 15,
               "You're squatting too deep - be careful with your knees"),
           Row(Lm(13).x > Lm(15).x + 30 \/ Lm(14).x > Lm(16).x + 30, 20,
               "Keep your knees behind your toes"),
           Row(~Absent("torso_vertical") /\ angles["torso_vertical"] > 4500, 15,
               "Keep your chest up and back more upright"),
           Row(10 * ankle_distance < 8 * HipWidth, 10,
               "Widen your stance to shoulder width or slightly wider"),
           Row(10 * ankle_distance > 18 * HipWidth, 10,
               "Narrow your stance slightly"),
           Row(10 * knee_width < 6 * HipWidth, 15,
               "Keep your knees in line with your toes - don't let them cave inward") >>

\* C23: for a squat on a frame with all landmarks present the score is 1.0
\* minus the penalties of exactly the rows of the squat table that hold, with
\* one message per such row in table order, and 1.0 with the affirmative
\* squat message alone when none holds.
C23_SquatTable ==
    (Assessed("squat") /\ AllLandmarks) =>
        /\ response.form_score =
               Expected(SquatTable, "Excellent squat form! Keep your weight in your heels.").score
        /\ response.feedback =
               Expected(SquatTable, "Excellent squat form! Keep your weight in your heels.").feedback

\* The scenario of the claim: the knees near 100 degrees, the torso near 20
\* degrees from the vertical, the ankles as wide as the hips, stage down,
\* score 1.0 and the affirmative message.
C23_Witness ==
    /\ Assessed("squat") /\ AllLandmarks /\ exercise_type = None_str
    /\ Avg2("left_knee", "right_knee") > 2 * 9500
    /\ Avg2("left_knee", "right_knee") < 2 * 10500
    /\ angles["torso_vertical"] > 1500 /\ angles["torso_vertical"] < 2500
    /\ Abs(Lm(15).x - Lm(16).x) = HipWidth
    /\ response.stage = "down"
    /\ response.form_score = 100
    /\ response.feedback = <<"Excellent squat form! Keep your weight in your heels.">>

\* The push_up table of spec 4.4, on the stage the assessment reports.
PushUpTable ==
    LET elbows == Avg2("left_elbow", "right_elbow")
        shoulder_y2 == Lm(5).y + Lm(6).y
        hip_y2 == Lm(11).y + Lm(12).y
    IN  << Row(Abs(shoulder_y2 - hip_y2) > 2 * 30 /\ hip_y2 < shoulder_y2, 25,
               "Lower your hips - maintain a straight line from head to heels"),
           Row(Abs(shoulder_y2 - hip_y2) > 2 * 30 /\ hip_y2 > shoulder_y2, 25,
               "Raise your hips - avoid sagging in the middle"),
           Row(InStage("down") /\ elbows # None_angle /\ elbows < 2 * 7000, 15,
               "You're going too deep - aim for 90 deg at the elbow"),
           Row(InStage("down") /\ elbows # None_angle /\ elbows > 2 * 11000, 20,
               "Go lower - aim for 90 deg at the elbow"),
           Row(InStage("up") /\ elbows # None_angle /\ elbows < 2 * 16000, 15,
               "Fully extend your arms at the top of the push-up"),
           Row(DistSq(Lm(15), Lm(16)) > 50 * 50, 10,
               "Keep your legs together for better stability") >>

\* C24: for a push_up on a frame with all landmarks present the score is 1.0
\* minus the penalties of exactly the rows of the push_up table that hold,
\* with one message per such row in table order, and 1.0 with the affirmative
\* push-up message alone when none holds.
C24_PushUpTable ==
    (Assessed("push_up") /\ AllLandmarks) =>
        /\ response.form_score =
               Expected(PushUpTable, "Great push-up form! Maintain a straight body line.").score
        /\ response.feedback =
               Expected(PushUpTable, "Great push-up form! Maintain a straight body line.").feedback

\* The plank table of spec 4.4.
PlankTable ==
    LET shoulder_y2 == Lm(5).y + Lm(6).y
        hip_y2 == Lm(11).y + Lm(12).y
        ankle_y2 == Lm(15).y + Lm(16).y
    IN  << Row(Abs(shoulder_y2 - hip_y2) > 2 * 30 /\ hip_y2 < shoulder_y2, 25,
               "Lower your hips - your body should form a straight line"),
           Row(Abs(shoulder_y2 - hip_y2) > 2 * 30 /\ hip_y2 > shoulder_y2, 25,
               "Raise your hips - don't let them sag toward the ground"),
           Row(Abs(ankle_y2 - hip_y2) > 2 * 30, 15,
               "Keep your legs straight and in line with your body"),
           Row(DistSq(Lm(7), Lm(5)) > 40 * 40 \/ DistSq(Lm(8), Lm(6)) > 40 * 40, 15,
               "Position your elbows directly under your shoulders") >>

\* C25: for a plank on a frame with all landmarks present the score is 1.0
\* minus 0.25 when the hips are more than 30 off the shoulders, 0.15 when the
\* ankles are more than 30 off the hips and 0.15, once, when either elbow is
\* farther than 40 from its shoulder; the feedback lists the rules that fired
\* in that order, or the affirmative plank message alone; the stage is neutral.
C25_PlankTable ==
    (Assessed("plank") /\ AllLandmarks) =>
        /\ response.form_score =
               Expected(PlankTable, "Great plank form! Keep your core engaged and breathe steadily.").score
        /\ response.feedback =
               Expected(PlankTable, "Great plank form! Keep your core engaged and breathe steadily.").feedback
        /\ response.stage = "neutral"

\* A plank with both elbows farther than 40 from their shoulders and the two
\* other rules firing as well: three messages, 0.15 taken once for the elbows.
C25_Witness ==
    /\ Assessed("plank") /\ AllLandmarks
    /\ DistSq(Lm(7), Lm(5)) > 40 * 40 /\ DistSq(Lm(8), Lm(6)) > 40 * 40
    /\ response.form_score = 45
    /\ Len(response.feedback) = 3
    /\ response.stage = "neutral"

\* The jumping_jack table of spec 4.4, on the stage the assessment reports.
JumpingJackTable ==
    LET ankle_distance == Abs(Lm(15).x - Lm(16).x)
    IN  << Row(InStage("up") /\ ~(Lm(9).y < Lm(5).y /\ Lm(10).y < Lm(6).y), 20,
               "Raise your arms fully above your head"),
           Row(InStage("up") /\ ankle_distance < HipWidth, 15,
               "Jump wider with your feet"),
           Row(InStage("down") /\ ~(Lm(9).y > Lm(11).y /\ Lm(10).y > Lm(12).y), 15,
               "Bring your arms fully down by your sides"),
           Row(InStage("down") /\ ankle_distance > 30, 15,
               "Bring your feet together between jumps"),
           Row(Abs(Lm(11).y - Lm(12).y) > 20, 10,
               "Keep your hips level during the exercise") >>

\* The eight landmarks the jumping_jack rule set reads are there with x and y.
EightLandmarks ==
    Len(keypoints) >= 17 /\ \A i \in {5, 6, 9, 10, 11, 12, 15, 16} : HasXY(i)

\* C26: for a jumping_jack with the eight landmarks present the score is 1.0
\* minus the penalties of the rows that hold: the two up rows only in stage
\* up, the two down rows only in stage down, the hip-level row in every
\* stage; the feedback is one message per such row, or the affirmative
\* message of the stage.
C26_JumpingJackTable ==
    (Assessed("jumping_jack") /\ EightLandmarks) =>
        LET affirmative == IF InStage("up")
                           THEN "Great form! Full extension of arms and legs."
                           ELSE "Good control on the landing! Maintain rhythm."
        IN  /\ response.form_score = Expected(JumpingJackTable, affirmative).score
            /\ response.feedback = Expected(JumpingJackTable, affirmative).feedback

\* A jumping jack in stage up whose arms are not raised and whose feet are
\* more than 30 apart: the up rule for the arms fires, the down rule for the
\* feet does not.
C26_Witness ==
    /\ Assessed("jumping_jack") /\ EightLandmarks /\ InStage("up")
    /\ Abs(Lm(15).x - Lm(16).x) > 30
    /\ response.form_score = 80
    /\ response.feedback = <<"Raise your arms fully above your head">>

\* C27: when any of the eight jumping_jack landmarks is missing, jumping_jack
\* scoring returns the score 0.5 and exactly the one insufficient-landmarks
\* message, with no penalty and no message of the table.
C27_ShortCircuit ==
    (Assessed("jumping_jack") /\ ~EightLandmarks) =>
        /\ response.form_score = 50
        /\ RunRuleSet("jumping_jack", keypoints, angles).rounding = 0
        /\ response.feedback =
               <<"Cannot fully analyze jumping jack - not all key points detected">>

\* One of the eight landmarks is missing while the stage is down and the
\* ankles are more than 30 apart, which is the condition of the feet-together
\* rule: the assessment has the score 0.5 and the one message.
C27_Witness ==
    /\ Assessed("jumping_jack") /\ ~EightLandmarks /\ InStage("down")
    /\ HasXY(15) /\ HasXY(16) /\ Abs(Lm(15).x - Lm(16).x) > 30
    /\ response.form_score = 50
    /\ Len(response.feedback) = 1

\* Whether the feedback of the assessment holds the message.
Says(message) ==
    "feedback" \in DOMAIN response
    /\ \E i \in 1..Len(response.feedback) : response.feedback[i] = message

\* C28: no assessment, for any frame and any hint, holds the push-up message
\* 'Go lower', the push-up message 'Fully extend your arms' or the squat
\* message 'Squat deeper'.
C28_DeadMessages ==
    (response # Raised /\ response # << >>) =>
        /\ ~Says("Go lower - aim for 90 deg at the elbow")
        /\ ~Says("Fully extend your arms at the top of the push-up")
        /\ ~Says("Squat deeper - aim for thighs parallel to the ground")

\* A squat whose knee average is above 140 degrees, the condition of the
\* 'Squat deeper' rule: the stage is not down and the message is not there.
C28_Witness ==
    /\ Assessed("squat") /\ AllLandmarks
    /\ Avg2("left_knee", "right_knee") > 2 * 14000
    /\ Avg2("left_knee", "right_knee") < 2 * 15000
    /\ InStage("neutral")
    /\ ~Says("Squat deeper - aim for thighs parallel to the ground")

\* One of the four lower-hips and raise-hips messages is in the feedback.
SaysHips ==
    \/ Says("Lower your hips - maintain a straight line from head to heels")
    \/ Says("Raise your hips - avoid sagging in the middle")
    \/ Says("Lower your hips - your body should form a straight line")
    \/ Says("Raise your hips - don't let them sag toward the ground")

\* C29: when the classifier chose push_up or plank (no hint decided), the
\* hips-against-shoulders rule does not fire; a lower-hips or raise-hips
\* message is only in assessments of calls whose hint decided the type.
C29_NoHipRuleAfterClassifier ==
    /\ (Assessed("push_up") \/ Assessed("plank")) /\ Falsy(exercise_type)
           => ~SaysHips
    /\ (response # Raised /\ response # << >> /\ SaysHips) => ~Falsy(exercise_type)

\* No hint, the classifier chose push_up or plank with the hips between 20
\* and 30 off the shoulders, and the assessment has no hips message.
C29_Witness ==
    /\ (Assessed("push_up") \/ Assessed("plank")) /\ exercise_type = None_str
    /\ AllLandmarks
    /\ Abs((Lm(5).y + Lm(6).y) - (Lm(11).y + Lm(12).y)) > 2 * 20
    /\ Abs((Lm(5).y + Lm(6).y) - (Lm(11).y + Lm(12).y)) < 2 * 30
    /\ ~SaysHips

\* The penalty a rule's message stands for.
PenaltyOf(message) ==
    CASE message \in {"Lower your hips - maintain a straight line from head to heels",
                      "Raise your hips - avoid sagging in the middle",
                      "Lower your hips - your body should form a straight line",
                      "Raise your hips - don't let them sag toward the ground",
                      "Squat deeper - aim for thighs parallel to the ground"} -> 25
      [] message \in {"Go lower - aim for 90 deg at the elbow",
                      "Keep your knees behind your toes",
                      "Raise your arms fully above your head"} -> 20
      [] message \in {"You're going too deep - aim for 90 deg at the elbow",
                      "Fully extend your arms at the top of the push-up",
                      "You're squatting too deep - be careful with your knees",
                      "Keep your chest up and back more upright",
                      "Keep your knees in line with your toes - don't let them cave inward",
                      "Keep your legs straight and in line with your body",
                      "Position your elbows directly under your shoulders",
                      "Jump wider with your feet",
                      "Bring your arms fully down by your sides",
                      "Bring your feet together between jumps"} -> 15
      [] message \in {"Keep your legs together for better stability",
                      "Widen your stance to shoulder width or slightly wider",
                      "Narrow your stance slightly",
                      "Keep your hips level during the exercise"} -> 10
      [] OTHER -> 0

RECURSIVE Penalties(_)
Penalties(feedback) ==
    IF feedback = << >> THEN 0 ELSE PenaltyOf(Head(feedback)) + Penalties(Tail(feedback))

\* A rule set has run in this call and its result is in the assessment.
RuleSetRan == pc \in {"scored", "staged", "done"} /\ detected_type \in exercise_types

\* The rule set short-circuited with its literal 0.5.
ShortCircuited ==
    response.feedback = <<"Cannot fully analyze jumping jack - not all key points detected">>

\* The float score of the call is at least hundredths / 100 + rounding units.
FloatAtLeast(hundredths, rounding) ==
    LET r == RunRuleSet(detected_type, keypoints, angles)
    IN  r.score > hundredths \/ (r.score = hundredths /\ r.rounding >= rounding)

\* The penalties of a run never sum above 0.75, the clamp leaves the score as
\* it is, and 0.0 is the score only where no rule set ran.
PenaltiesBounded ==
    /\ RuleSetRan =>
          /\ Penalties(response.feedback) <= 75
          /\ ShortCircuited \/ response.form_score = 100 - Penalties(response.feedback)
          /\ response.form_score >= 25
    /\ (pc = "done" /\ response.form_score = 0) => detected_type \notin exercise_types

\* C30 as stated: whenever a rule set runs the penalties sum to at most
\* 0.75, the clamp does not change the score, the score is at least 0.50 for
\* push_up, 0.25 for squat, 0.45 for plank and 0.50 for jumping_jack, and
\* the score 0.0 occurs only where no rule set ran.
C30_ScoreFloors ==
    /\ PenaltiesBounded
    /\ RuleSetRan =>
          /\ FloatAtLeast(25, 0)
          /\ detected_type = "push_up" => FloatAtLeast(50, 0)
          /\ detected_type = "squat" => FloatAtLeast(25, 0)
          /\ detected_type = "plank" => FloatAtLeast(45, 0)
          /\ detected_type = "jumping_jack" => FloatAtLeast(50, 0)

\* C30 amended: the penalties sum to at most 0.75, the clamp does not change
\* the score, the score 0.0 occurs only where no rule set ran, and the score,
\* a float that can fall short of the decimal difference, is at least 0.5
\* for push_up and jumping_jack, 0.24999999999999992 for squat and
\* 0.44999999999999996 for plank.
C30_FloatScoreFloors ==
    /\ PenaltiesBounded
    /\ RuleSetRan =>
          /\ detected_type = "push_up" => FloatAtLeast(50, 0)
          /\ detected_type = "squat" => FloatAtLeast(25, 0 - 300)
          /\ detected_type = "plank" => FloatAtLeast(45, 0 - 160)
          /\ detected_type = "jumping_jack" => FloatAtLeast(50, 0)

\* A squat with all five live rules firing: penalties 0.75, the score at 25
\* hundredths and its float below 0.25.
C30_Witness ==
    /\ Assessed("squat") /\ AllLandmarks
    /\ Len(response.feedback) = 5
    /\ Penalties(response.feedback) = 75
    /\ response.form_score = 25
    /\ RunRuleSet(detected_type, keypoints, angles).rounding = 0 - 300

====
